---------------------------- MODULE Spec2Model ----------------------------
(***************************************************************************)
(* A model of promwatch's per-collector polling engine: the double-        *)
(* buffered snapshot store, the query builder and batcher, the concurrent  *)
(* fetch aggregator, the collector run loop with its detached formatting   *)
(* tasks, the tag filter, configuration loading and the validity gate.     *)
(*                                                                         *)
(* The module holds several specifications over one set of variables; each *)
(* specification moves its own group of variables and leaves the others at *)
(* their idle values:                                                      *)
(*   SpecStore  one store driven by one serialized caller                  *)
(*   SpecBatch  getMetricDataInput on bounded inputs                       *)
(*   SpecMain   main's start-up loop over the configured collectors        *)
(*   SpecRun    one collector's run loop and its detached tasks            *)
(*   SpecFetch  getMetrics: GetMetricData's goroutines, AddResults         *)
(*   SpecFilter filter on bounded groups and tag filters                   *)
(*   SpecQueries makeQueries in full on bounded resources and pairs        *)
(*   SpecLoad   main from loadConfig on, then the start-up loop            *)
(*   SpecConvert convertTags on bounded tags                               *)
(*   SpecEscape escapeValue on bounded tag values                          *)
(*   SpecMutex  one store called by concurrent callers                     *)
(*   SpecIndex  NewResourceIndexFromTagMapping on bounded listings         *)
(*   SpecDimension makeQueries with the asg and ec_host dimension strategies *)
(***************************************************************************)
EXTENDS Integers, Sequences, FiniteSets, TLC

(***************************************************************************)
(* Bounds of the model.                                                    *)
(***************************************************************************)
\* longest string handed to one Add call
MaxStrLen == 1
\* longest content of the accumulating buffer
MaxBufLen == 2
\* number of Commit calls of the serialized caller
MaxCommits == 2
\* number of Add calls between two Commits
MaxAdds == 2

\* number of configured collectors
MaxCollectors == 2
\* largest offset and interval (seconds) of a configured collector
MaxCfgSec == 1
\* passes a started collector makes while main is observed
MaxMainPasses == 1

\* resources in the index handed to getMetricDataInput
MaxBatchResources == 2
\* longest configured list of metric/stat pairs
MaxMetricStats == 501
\* last reading of the clock
MaxClock == 1

\* collection passes one collector makes
MaxPasses == 2
\* sample lines in the formatted output of one pass
MaxLines == 1

\* autoscaling groups in one listing
MaxGroups == 2
\* tags of one autoscaling group
MaxTags == 2
\* configured tag filters
MaxFilters == 2

\* resources in the index handed to makeQueries
MaxQueryResources == 2
\* configured metric/stat pairs of the collector makeQueries runs for
MaxPairs == 2
\* makeQueries calls on the same resources and configuration
MaxBuilds == 2

\* request payloads handed to one GetMetricData call
MaxFetchBatches == 2
\* pages the provider splits the answer to one request into
MaxPages == 2

\* the provider's limit of query items per GetMetricData request
MaxMetricDataQueryItems == 500

\* SpecConvert: most tags on the resource, most merge-tag names, most extra tags
MaxResourceTags == 2

MaxMergeTags == 2

MaxExtraTags == 1

\* SpecEscape: longest tag value handed to escapeValue
MaxValueLen == 4

\* SpecMutex: concurrent callers of one store, calls they make in all, and
\* the longest string one Add writes
MaxCallers == 2

MaxCalls == 4

MaxAddLen == 2

\* SpecIndex: most resources in one listing
MaxListed == 3

\* SpecDimension: most resources in the index of one pass
MaxDimResources == 2

\* the length asgMetricDimension cuts off the resource part of an ARN
AsgPrefixLen == 75

\* the characters strings are made of
Alphabet == {"a", "b"}

RECURSIVE StringsUpTo(_)
StringsUpTo(n) ==
  IF n = 0 THEN {<<>>}
  ELSE LET shorter == StringsUpTo(n - 1)
       IN  shorter \cup {Append(s, c) : s \in {t \in shorter : Len(t) = n - 1}, c \in Alphabet}

RECURSIVE Flatten(_)
Flatten(strs) ==
  IF strs = <<>> THEN <<>> ELSE Head(strs) \o Flatten(Tail(strs))

(***************************************************************************)
(* State.                                                                  *)
(***************************************************************************)
VARIABLES
  store,      \* the naiveStore: two buffers and the two pointers internal, view
  pending,    \* history: the strings Added since the last Commit, in call order
  commits,    \* history: number of Commit calls so far
  lastOp,     \* history: the operation the caller made last
  got,        \* what the caller's last String() call returned
  published,  \* history: the strings Added between the last two Commits
  view0,      \* history: String() right after the last Commit (or creation)
  prevView    \* history: String() right before the last Commit

storeVars == <<store, pending, commits, lastOp, got, published, view0, prevView>>

VARIABLES
  conf,        \* conf.Collectors: the configured collectors, in file order
  mainPc,      \* where main is: "load", "loaded", "start", "loop", "serve", "exit"
  cursor,      \* position in conf of the collector main's loop handles next
  verdict,     \* history: what Valid() returned for each collector handled
  proc,        \* per configured collector: its run state, store and passes
  collectors,  \* main's map of active collectors (the set of its keys)
  errorCount   \* per configured collector: its ErrorCount telemetry counter

mainVars == <<conf, mainPc, cursor, verdict, proc, collectors, errorCount>>

VARIABLES
  clock,      \* the time Time().Now() returns, in seconds
  config,     \* the collector's configuration: Offset, Interval, MetricStats
  index,      \* the ResourceIndex of the pass: its resources and their order
  batchPc,    \* "call" before getMetricDataInput has run, "done" after
  dataQuery,  \* history: the query list makeQueries returned
  ins,        \* the request payloads getMetricDataInput returned
  readAt      \* history: the clock when getMetricDataInput was called

batchVars == <<clock, config, index, batchPc, dataQuery, ins, readAt>>

VARIABLES
  bStore,       \* b.store: the store of the collector (nil before run)
  runPc,        \* where the run loop's goroutine is
  pass,         \* number of collection passes begun
  fetched,      \* sample values merged into the index of the pass in flight
  tasks,        \* per pass: its detached storeResults task
  stopOffered,  \* a sender is blocked on proc.Stop
  timerFired,   \* history: number of times the interval timer fired
  runErrors,    \* the collector's ErrorCount telemetry counter
  outputs,      \* history: the complete outputs formatted so far, one per task
  commitsDone,  \* history: number of Commit calls made on b.store
  stopsRecvd,   \* history: number of receptions from proc.Stop
  passAtStop,   \* history: the passes begun when the stop was received
  doneSent,     \* history: number of completed sends on proc.Done
  lateTimer,    \* the timer of the select the stop won has fired since
  passLog,      \* history, per pass: what its listing and its fetch did
  offerPc       \* history: where the run loop was when the stop was sent

\* the history variables of the run loop
runHist == <<stopsRecvd, passAtStop, doneSent, lateTimer, passLog, offerPc>>

runVars == <<bStore, runPc, pass, fetched, tasks, stopOffered, timerFired,
             runErrors, outputs, commitsDone, runHist>>

VARIABLES
  fetchIn,    \* in: the request payloads of the call, one query id each
  provider,   \* per payload: the id the provider files its results under
  fetchPc,    \* where getMetrics is: in GetMetricData, after it, after AddResults
  gr,         \* per payload: its goroutine's position, page count and page held
  resLock,    \* res.Mutex: the goroutine holding it, 0 when free
  resR,       \* res.r: the results appended so far, in append order
  wg,         \* the WaitGroup's counter
  teleErrors, \* tele.ErrorCount
  failed,     \* history: the payloads whose fetch returned an error
  requests,   \* history, per payload: page requests sent to the provider
  fetchRet,   \* what GetMetricData returned: the results and the error
  fetchIndex, \* the ResourceIndex of the pass: Queries and Results
  fetchOut    \* what storeResults published for the pass

fetchVars == <<fetchIn, provider, fetchPc, gr, resLock, resR, wg, teleErrors, failed,
               requests, fetchRet, fetchIndex, fetchOut>>

VARIABLES
  groups,    \* the autoscaling groups DescribeAutoScalingGroups returned
  tf,        \* config.TagFilters: the configured tag filters, in file order
  filterPc,  \* "call" before filter has run, "done" after
  res        \* what filter returned

filterVars == <<groups, tf, filterPc, res>>

VARIABLES
  qResources,  \* index.Resources: the resources of the pass by resource id
  qConfig,     \* b.config: MetricStats and Period
  builds       \* history: what each makeQueries call on these resources gave

queryVars == <<qResources, qConfig, builds>>

VARIABLES
  rawCollectors,  \* t.Collectors: the collector entries of the YAML file, in file order
  parsed,         \* what loadConfig returned: the collectors built and the error
  exitCode        \* the status the process exited with

loadVars == <<rawCollectors, parsed, exitCode>>

VARIABLES
  ctResource,   \* resource.Tags: the tags of the resource handed to convertTags
  ctMergeTags,  \* mergeTags: the configured merge-tag names, in configuration order
  ctExtra,      \* tags: the extra tags handed to convertTags, in call order
  ctOut,        \* what convertTags returned
  escIn,        \* str: the tag value handed to escapeValue
  escOut,       \* what escapeValue returned
  labelPc       \* where the caller of the label renderer is, before or after its call

labelVars == <<ctResource, ctMergeTags, ctExtra, ctOut, escIn, escOut, labelPc>>

VARIABLES
  cStore,    \* the naiveStore shared by the concurrent callers
  mu,        \* the store's sync.Mutex: 0 when free, else the caller that holds it
  callers,   \* each caller's call in progress: operation, position, locals
  calls,     \* history: number of calls made so far
  cLog,      \* history: the contents published so far, oldest first, from the empty first view
  cPending,  \* history: the strings of the Adds that returned since the last Commit returned
  reads      \* history: what each String call returned, with the log length at call and at return

concVars == <<cStore, mu, callers, calls, cLog, cPending, reads>>

VARIABLES
  listed,    \* *r: the resources the listing returned, in list order
  newIndex,  \* the *ResourceIndex NewResourceIndexFromTagMapping returned
  idxPc      \* where the caller of NewResourceIndexFromTagMapping is, before or after its call

idxVars == <<listed, newIndex, idxPc>>

VARIABLES
  dimResources,  \* the resources of the index makeQueries ranges over, in the order the map gave
  dimKind,       \* the collector kind, which fixes the dimension strategy
  dimOut,        \* what the pass came to: the queries built, the errors counted, whether it panicked
  dimPc          \* where the pass is: before makeQueries, after it, or the process gone

dimVars == <<dimResources, dimKind, dimOut, dimPc>>

vars == <<storeVars, mainVars, batchVars, runVars, fetchVars, filterVars, queryVars, loadVars, labelVars, concVars, idxVars, dimVars>>

\* what the actions of one specification leave unchanged
storeOthers == <<mainVars, batchVars, runVars, fetchVars, filterVars, queryVars, loadVars, labelVars, concVars, idxVars, dimVars>>

mainOthers == <<storeVars, batchVars, runVars, fetchVars, filterVars, queryVars, loadVars, labelVars, concVars, idxVars, dimVars>>

batchOthers == <<storeVars, mainVars, runVars, fetchVars, filterVars, queryVars, loadVars, labelVars, concVars, idxVars, dimVars>>

runOthers == <<storeVars, mainVars, batchVars, fetchVars, filterVars, queryVars, loadVars, labelVars, concVars, idxVars, dimVars>>

fetchOthers == <<storeVars, mainVars, batchVars, runVars, filterVars, queryVars, loadVars, labelVars, concVars, idxVars, dimVars>>

filterOthers == <<storeVars, mainVars, batchVars, runVars, fetchVars, queryVars, loadVars, labelVars, concVars, idxVars, dimVars>>

queryOthers == <<storeVars, mainVars, batchVars, runVars, fetchVars, filterVars, loadVars, labelVars, concVars, idxVars, dimVars>>

loadOthers == <<storeVars, mainVars, batchVars, runVars, fetchVars, filterVars, queryVars, labelVars, concVars, idxVars, dimVars>>

labelOthers == <<storeVars, mainVars, batchVars, runVars, fetchVars, filterVars, queryVars, loadVars, concVars, idxVars, dimVars>>

concOthers == <<storeVars, mainVars, batchVars, runVars, fetchVars, filterVars, queryVars, loadVars, labelVars, idxVars, dimVars>>

idxOthers == <<storeVars, mainVars, batchVars, runVars, fetchVars, filterVars, queryVars, loadVars, labelVars, concVars, dimVars>>

dimOthers == <<storeVars, mainVars, batchVars, runVars, fetchVars, filterVars, queryVars, loadVars, labelVars, concVars, idxVars>>

\* what an action of main that handles the loaded configuration leaves
\* unchanged
loadMainOthers == <<storeVars, batchVars, runVars, fetchVars, filterVars, queryVars, labelVars, concVars, idxVars, dimVars>>

(***************************************************************************)
(* The snapshot store.  A buffer is a sequence; the store's two pointer    *)
(* fields name one of its two buffers each.                                *)
(***************************************************************************)
NoValue == "none"

\* a nil Store: the store field of a collector that was never run
NoStore == [buf |-> <<>>, internal |-> 0, view |-> 0]

\* a mutant of NewStore: both pointers name one buffer
NewStoreShared == [buf |-> <<<<>>, <<>>>>, internal |-> 1, view |-> 1]

NewStore == [buf |-> <<<<>>, <<>>>>, internal |-> 1, view |-> 2]

\* a mutant of Add: the string goes to the published buffer
AddToView(s, str) == [s EXCEPT !.buf[s.view] = @ \o str]

Add(s, str) == [s EXCEPT !.buf[s.internal] = @ \o str]

String(s) == s.buf[s.view]

\* a mutant of Commit: the swap without the Reset
CommitNoReset(s) == [s EXCEPT !.internal = s.view, !.view = s.internal]

\* a mutant of Commit: Reset before the swap
CommitResetFirst(s) ==
  LET cleared == [s EXCEPT !.buf[s.internal] = <<>>]
  IN  [cleared EXCEPT !.internal = s.view, !.view = s.internal]

Commit(s) ==
  LET swapped == [s EXCEPT !.internal = s.view, !.view = s.internal]
  IN  [swapped EXCEPT !.buf[swapped.internal] = <<>>]

(***************************************************************************)
(* Idle values: what a specification leaves the other groups at.           *)
(***************************************************************************)
IdleStore ==
  /\ store = NoStore
  /\ pending = <<>>
  /\ commits = 0
  /\ lastOp = NoValue
  /\ got = NoValue
  /\ published = <<>>
  /\ view0 = <<>>
  /\ prevView = <<>>

IdleMain ==
  /\ conf = <<>>
  /\ mainPc = NoValue
  /\ cursor = 0
  /\ verdict = <<>>
  /\ proc = <<>>
  /\ collectors = {}
  /\ errorCount = <<>>

IdleBatch ==
  /\ clock = 0
  /\ config = NoValue
  /\ index = NoValue
  /\ batchPc = NoValue
  /\ dataQuery = <<>>
  /\ ins = <<>>
  /\ readAt = 0

IdleRun ==
  /\ bStore = NoStore
  /\ runPc = NoValue
  /\ pass = 0
  /\ fetched = 0
  /\ tasks = <<>>
  /\ stopOffered = FALSE
  /\ timerFired = 0
  /\ runErrors = 0
  /\ outputs = {}
  /\ commitsDone = 0
  /\ stopsRecvd = 0
  /\ passAtStop = 0
  /\ doneSent = 0
  /\ lateTimer = FALSE
  /\ passLog = <<>>
  /\ offerPc = NoValue

IdleFetch ==
  /\ fetchIn = <<>>
  /\ provider = <<>>
  /\ fetchPc = NoValue
  /\ gr = <<>>
  /\ resLock = 0
  /\ resR = <<>>
  /\ wg = 0
  /\ teleErrors = 0
  /\ failed = {}
  /\ requests = <<>>
  /\ fetchRet = NoValue
  /\ fetchIndex = NoValue
  /\ fetchOut = NoValue

IdleFilter ==
  /\ groups = <<>>
  /\ tf = <<>>
  /\ filterPc = NoValue
  /\ res = <<>>

IdleQuery ==
  /\ qResources = <<>>
  /\ qConfig = NoValue
  /\ builds = <<>>

IdleLoad ==
  /\ rawCollectors = <<>>
  /\ parsed = NoValue
  /\ exitCode = 0

IdleLabel ==
  /\ ctResource = <<>>
  /\ ctMergeTags = <<>>
  /\ ctExtra = <<>>
  /\ ctOut = NoValue
  /\ escIn = <<>>
  /\ escOut = NoValue
  /\ labelPc = NoValue

IdleConc ==
  /\ cStore = NoStore
  /\ mu = 0
  /\ callers = <<>>
  /\ calls = 0
  /\ cLog = <<>>
  /\ cPending = <<>>
  /\ reads = <<>>

IdleIdx ==
  /\ listed = <<>>
  /\ newIndex = NoValue
  /\ idxPc = NoValue

IdleDim ==
  /\ dimResources = <<>>
  /\ dimKind = NoValue
  /\ dimOut = NoValue
  /\ dimPc = NoValue

(***************************************************************************)
(* SpecStore: one store and one caller that serializes its calls.          *)
(***************************************************************************)
InitStore ==
  /\ store = NewStore
  /\ pending = <<>>
  /\ commits = 0
  /\ lastOp = "NewStore"
  /\ got = NoValue
  /\ published = <<>>
  /\ view0 = <<>>
  /\ prevView = <<>>
  /\ IdleMain
  /\ IdleBatch
  /\ IdleRun
  /\ IdleFetch
  /\ IdleFilter
  /\ IdleQuery
  /\ IdleLoad
  /\ IdleLabel
  /\ IdleConc
  /\ IdleIdx
  /\ IdleDim

StoreAdd ==
  \E str \in StringsUpTo(MaxStrLen) :
    /\ Len(pending) < MaxAdds
    /\ Len(store.buf[store.internal]) + Len(str) <= MaxBufLen
    /\ store' = Add(store, str)
    /\ pending' = Append(pending, str)
    /\ lastOp' = "Add"
    /\ got' = NoValue
    /\ UNCHANGED <<commits, published, view0, prevView>>
    /\ UNCHANGED storeOthers

StoreCommit ==
  /\ commits < MaxCommits
  /\ store' = Commit(store)
  /\ published' = pending
  /\ pending' = <<>>
  /\ commits' = commits + 1
  /\ lastOp' = "Commit"
  /\ got' = NoValue
  /\ view0' = String(store')
  /\ prevView' = String(store)
  /\ UNCHANGED storeOthers

StoreString ==
  /\ got' = String(store)
  /\ lastOp' = "String"
  /\ UNCHANGED <<store, pending, commits, published, view0, prevView>>
  /\ UNCHANGED storeOthers

NextStore ==
  \/ StoreAdd
  \/ StoreCommit
  \/ StoreString

SpecStore == InitStore /\ [][NextStore]_vars

(***************************************************************************)
(* The validity gate.  A collector is its kind and its configuration; the  *)
(* asg and ec_host collectors wrap a BaseCollector and delegate to it.     *)
(***************************************************************************)
Kinds == {"base", "asg", "ec_host"}

\* offset and interval are Go ints read from YAML: they can be negative
CfgSecs == -1..MaxCfgSec

CollectorConfigs ==
  [kind : Kinds, Offset : CfgSecs, Interval : CfgSecs]

\* a mutant of BaseValid: offset must be greater than interval
BaseValidStrict(c) == IF c.Offset <= c.Interval THEN FALSE ELSE TRUE

BaseValid(c) == IF c.Offset < c.Interval THEN FALSE ELSE TRUE

ASGValid(c) == BaseValid(c)

ECHostValid(c) == BaseValid(c)

Valid(c) ==
  CASE c.kind = "asg" -> ASGValid(c)
    [] c.kind = "ec_host" -> ECHostValid(c)
    [] OTHER -> BaseValid(c)

(***************************************************************************)
(* SpecMain: main's start-up loop.  A collector's ID is a fresh UUID; the  *)
(* model uses the collector's position in conf as its ID.                  *)
(***************************************************************************)
RECURSIVE SeqsUpTo(_, _)
SeqsUpTo(S, n) ==
  IF n = 0 THEN {<<>>}
  ELSE LET shorter == SeqsUpTo(S, n - 1)
       IN  shorter \cup {Append(q, x) : q \in {t \in shorter : Len(t) = n - 1}, x \in S}

CreatedProc == [state |-> "created", store |-> NoStore, passes |-> 0]

InitMain ==
  /\ conf \in SeqsUpTo(CollectorConfigs, MaxCollectors)
  /\ mainPc = "start"
  /\ cursor = 1
  /\ verdict = <<>>
  /\ proc = [i \in 1..Len(conf) |-> CreatedProc]
  /\ collectors = {}
  /\ errorCount = [i \in 1..Len(conf) |-> 0]
  /\ IdleStore
  /\ IdleBatch
  /\ IdleRun
  /\ IdleFetch
  /\ IdleFilter
  /\ IdleQuery
  /\ IdleLoad
  /\ IdleLabel
  /\ IdleConc
  /\ IdleIdx
  /\ IdleDim

\* len(conf.Collectors) == 0: nothing to do, os.Exit(0)
MainNoCollectors ==
  /\ mainPc = "start"
  /\ Len(conf) = 0
  /\ mainPc' = "exit"
  /\ UNCHANGED <<conf, cursor, verdict, proc, collectors, errorCount>>
  /\ UNCHANGED mainOthers

MainStart ==
  /\ mainPc = "start"
  /\ Len(conf) > 0
  /\ mainPc' = "loop"
  /\ UNCHANGED <<conf, cursor, verdict, proc, collectors, errorCount>>
  /\ UNCHANGED mainOthers

\* a mutant of MainInvalid: break instead of continue
MainInvalidBreak ==
  /\ mainPc = "loop"
  /\ cursor <= Len(conf)
  /\ ~Valid(conf[cursor])
  /\ verdict' = Append(verdict, FALSE)
  /\ errorCount' = [errorCount EXCEPT ![cursor] = @ + 1]
  /\ cursor' = Len(conf) + 1
  /\ UNCHANGED <<conf, mainPc, proc, collectors>>
  /\ UNCHANGED mainOthers

\* !c.Valid(): Valid has counted the error; log and continue
MainInvalid ==
  /\ mainPc = "loop"
  /\ cursor <= Len(conf)
  /\ ~Valid(conf[cursor])
  /\ verdict' = Append(verdict, FALSE)
  /\ errorCount' = [errorCount EXCEPT ![cursor] = @ + 1]
  /\ cursor' = cursor + 1
  /\ UNCHANGED <<conf, mainPc, proc, collectors>>
  /\ UNCHANGED mainOthers

\* c.Valid(): proc := c.Run(); collectors[proc.ID] = proc
MainRun ==
  /\ mainPc = "loop"
  /\ cursor <= Len(conf)
  /\ Valid(conf[cursor])
  /\ verdict' = Append(verdict, TRUE)
  /\ proc' = [proc EXCEPT ![cursor] = [state |-> "running", store |-> NewStore, passes |-> 0]]
  /\ collectors' = collectors \cup {cursor}
  /\ cursor' = cursor + 1
  /\ UNCHANGED <<conf, mainPc, errorCount>>
  /\ UNCHANGED mainOthers

\* the loop is over: main goes on to serve /metrics
MainServe ==
  /\ mainPc = "loop"
  /\ cursor > Len(conf)
  /\ mainPc' = "serve"
  /\ UNCHANGED <<conf, cursor, verdict, proc, collectors, errorCount>>
  /\ UNCHANGED mainOthers

\* the goroutine of a started collector makes a collection pass
CollectorPass ==
  \E i \in 1..Len(conf) :
    /\ proc[i].state = "running"
    /\ proc[i].passes < MaxMainPasses
    /\ proc' = [proc EXCEPT ![i].passes = @ + 1]
    /\ UNCHANGED <<conf, mainPc, cursor, verdict, collectors, errorCount>>
    /\ UNCHANGED mainOthers

NextMain ==
  \/ MainNoCollectors
  \/ MainStart
  \/ MainInvalid
  \/ MainRun
  \/ MainServe
  \/ CollectorPass

SpecMain == InitMain /\ [][NextMain]_vars

(***************************************************************************)
(* The query batcher.  A ResourceIndex is modelled by the order in which   *)
(* ranging over its Resources map visits the resource ids (Go leaves that  *)
(* order open) and by the resources whose ARN the dimension function       *)
(* cannot parse.  A query is identified by its Id: resource id and         *)
(* position of the metric/stat pair.                                       *)
(***************************************************************************)
Perms(S) ==
  {f \in [1..Cardinality(S) -> S] : \A i, j \in 1..Cardinality(S) : i # j => f[i] # f[j]}

\* the queries of one resource, one per configured metric/stat pair
QueriesOf(id, cfg) ==
  [i \in 1..cfg.MetricStats |-> [Id |-> <<id, i - 1>>, Period |-> cfg.Period]]

RECURSIVE makeQueriesFrom(_, _, _)
makeQueriesFrom(order, failing, cfg) ==
  IF order = <<>> THEN <<>>
  ELSE (IF Head(order) \in failing THEN <<>> ELSE QueriesOf(Head(order), cfg))
         \o makeQueriesFrom(Tail(order), failing, cfg)

makeQueries(idx, cfg) == makeQueriesFrom(idx.order, idx.failing, cfg)

GetMetricDataInputOf(e, st, queries) ==
  [EndTime |-> e, StartTime |-> st, ScanBy |-> "TimestampAscending",
   MetricDataQueries |-> queries]

\* a mutant of BatchLoop: i <= len(dataQuery)
RECURSIVE BatchLoopInclusive(_, _, _, _, _)
BatchLoopInclusive(dq, i, acc, e, st) ==
  IF i <= Len(dq)
  THEN LET end == IF i + MaxMetricDataQueryItems > Len(dq)
                  THEN Len(dq) ELSE i + MaxMetricDataQueryItems
       IN  BatchLoopInclusive(dq, i + MaxMetricDataQueryItems,
                     Append(acc, GetMetricDataInputOf(e, st, SubSeq(dq, i + 1, end))), e, st)
  ELSE acc

\* a mutant of BatchLoop: the clock is read again for every batch
RECURSIVE BatchLoopRereadClock(_, _, _, _, _)
BatchLoopRereadClock(dq, i, acc, e, st) ==
  IF i < Len(dq)
  THEN LET end == IF i + MaxMetricDataQueryItems > Len(dq)
                  THEN Len(dq) ELSE i + MaxMetricDataQueryItems
       IN  BatchLoopRereadClock(dq, i + MaxMetricDataQueryItems,
                     Append(acc, GetMetricDataInputOf(e + Len(acc), st + Len(acc),
                                                      SubSeq(dq, i + 1, end))), e, st)
  ELSE acc

\* a mutant of BatchLoop: a batch starts with the last query of the one before
RECURSIVE BatchLoopOverlap(_, _, _, _, _)
BatchLoopOverlap(dq, i, acc, e, st) ==
  IF i < Len(dq)
  THEN LET end == IF i + MaxMetricDataQueryItems > Len(dq)
                  THEN Len(dq) ELSE i + MaxMetricDataQueryItems
           from == IF i = 0 THEN 1 ELSE i
       IN  BatchLoopOverlap(dq, i + MaxMetricDataQueryItems,
                     Append(acc, GetMetricDataInputOf(e, st, SubSeq(dq, from, end))), e, st)
  ELSE acc

\* for i := 0; i < len(dataQuery); i += MaxMetricDataQueryItems
RECURSIVE BatchLoop(_, _, _, _, _)
BatchLoop(dq, i, acc, e, st) ==
  IF i < Len(dq)
  THEN LET end == IF i + MaxMetricDataQueryItems > Len(dq)
                  THEN Len(dq) ELSE i + MaxMetricDataQueryItems
       IN  BatchLoop(dq, i + MaxMetricDataQueryItems,
                     Append(acc, GetMetricDataInputOf(e, st, SubSeq(dq, i + 1, end))), e, st)
  ELSE acc

getMetricDataInput(dq, cfg, now) ==
  LET endTime == now - cfg.Offset
      startTime == endTime - cfg.Interval
  IN  BatchLoop(dq, 0, <<>>, endTime, startTime)

(***************************************************************************)
(* SpecBatch: getMetricDataInput called once, at any reading of the clock, *)
(* on an index and a configuration drawn from bounded sets.  The lengths   *)
(* of the metric/stat list lie around the batch limit.                     *)
(***************************************************************************)
PairCounts ==
  {0, 1, 2, MaxMetricDataQueryItems \div 2, MaxMetricDataQueryItems - 1,
   MaxMetricDataQueryItems, MaxMetricStats}

BatchConfigs ==
  [Offset : CfgSecs, Interval : CfgSecs, Period : {300}, MetricStats : PairCounts]

Indexes ==
  UNION {[order : Perms(1..n), failing : SUBSET (1..n)] : n \in 0..MaxBatchResources}

InitBatch ==
  /\ clock = 0
  /\ config \in BatchConfigs
  /\ index \in Indexes
  /\ batchPc = "call"
  /\ dataQuery = <<>>
  /\ ins = <<>>
  /\ readAt = 0
  /\ IdleStore
  /\ IdleMain
  /\ IdleRun
  /\ IdleFetch
  /\ IdleFilter
  /\ IdleQuery
  /\ IdleLoad
  /\ IdleLabel
  /\ IdleConc
  /\ IdleIdx
  /\ IdleDim

\* time passes
Tick ==
  /\ clock < MaxClock
  /\ clock' = clock + 1
  /\ UNCHANGED <<config, index, batchPc, dataQuery, ins, readAt>>
  /\ UNCHANGED batchOthers

BatchCall ==
  /\ batchPc = "call"
  /\ dataQuery' = makeQueries(index, config)
  /\ ins' = getMetricDataInput(dataQuery', config, clock)
  /\ readAt' = clock
  /\ batchPc' = "done"
  /\ UNCHANGED <<clock, config, index>>
  /\ UNCHANGED batchOthers

NextBatch ==
  \/ Tick
  \/ BatchCall

SpecBatch == InitBatch /\ [][NextBatch]_vars

(***************************************************************************)
(* SpecRun: one collector from run() on.  The run loop's goroutine makes   *)
(* one pass at once and then selects between the interval timer and the    *)
(* stop channel.  A pass lists the resources, fetches the metric data and  *)
(* merges it into its index; then it hands the index to a detached         *)
(* storeResults task, which formats it, Adds the text to the store and     *)
(* Commits.  The formatted output of pass k is modelled by its sample      *)
(* lines <<k, 1>>, <<k, 2>>, ..., one per value fetched in that pass.      *)
(*                                                                         *)
(* runPc: "created"  run() not called yet                                  *)
(*        "first"    goroutine started, before the first collect           *)
(*        "listing"  in collect, in getResources                           *)
(*        "fetching" in getMetrics, in client.GetMetricData                *)
(*        "waiting"  in the select                                         *)
(*        "sendDone" stop received, blocked in proc.Done <- b              *)
(*        "stopped"  returned                                              *)
(***************************************************************************)
NoTask == [pc |-> "none", values |-> 0]

\* the log of a pass that has not listed its resources yet
NoLog == [list |-> "none", fetch |-> FALSE, errors |-> 0]

\* the text storeResults formats from the index of pass k
FormatOutput(k, values) == [i \in 1..values |-> <<k, i>>]

InitRun ==
  /\ bStore = NoStore
  /\ runPc = "created"
  /\ pass = 0
  /\ fetched = 0
  /\ tasks = [k \in 1..MaxPasses |-> NoTask]
  /\ stopOffered = FALSE
  /\ timerFired = 0
  /\ runErrors = 0
  /\ outputs = {}
  /\ commitsDone = 0
  /\ stopsRecvd = 0
  /\ passAtStop = 0
  /\ doneSent = 0
  /\ lateTimer = FALSE
  /\ passLog = [k \in 1..MaxPasses |-> NoLog]
  /\ offerPc = NoValue
  /\ IdleStore
  /\ IdleMain
  /\ IdleBatch
  /\ IdleFetch
  /\ IdleFilter
  /\ IdleQuery
  /\ IdleLoad
  /\ IdleLabel
  /\ IdleConc
  /\ IdleIdx
  /\ IdleDim

\* a mutant of RunStart: the goroutine enters the select without collecting
RunStartNoFirstPass ==
  /\ runPc = "created"
  /\ bStore' = NewStore
  /\ runPc' = "waiting"
  /\ UNCHANGED <<pass, fetched, tasks, stopOffered, timerFired, runErrors, outputs, commitsDone>>
  /\ UNCHANGED runOthers
  /\ UNCHANGED runHist

\* run(): b.store = NewStore(), the goroutine is started
RunStart ==
  /\ runPc = "created"
  /\ bStore' = NewStore
  /\ runPc' = "first"
  /\ UNCHANGED <<pass, fetched, tasks, stopOffered, timerFired, runErrors, outputs, commitsDone>>
  /\ UNCHANGED runOthers
  /\ UNCHANGED runHist

\* "run once before starting the loop ticker"
FirstPass ==
  /\ runPc = "first"
  /\ pass' = pass + 1
  /\ runPc' = "listing"
  /\ UNCHANGED <<bStore, fetched, tasks, stopOffered, timerFired, runErrors, outputs, commitsDone>>
  /\ UNCHANGED runOthers
  /\ UNCHANGED runHist

\* a mutant of TimerFire: the timer runs from the start of the pass and starts
\* the next pass while the fetch is still going on
TimerFireDuringPass ==
  /\ runPc \in {"waiting", "fetching"}
  /\ pass < MaxPasses
  /\ timerFired' = timerFired + 1
  /\ pass' = pass + 1
  /\ runPc' = "listing"
  /\ UNCHANGED <<bStore, fetched, tasks, stopOffered, runErrors, outputs, commitsDone>>
  /\ UNCHANGED runOthers
  /\ UNCHANGED runHist

\* case <-time.After(interval): collect again
TimerFire ==
  /\ runPc = "waiting"
  /\ pass < MaxPasses
  /\ timerFired' = timerFired + 1
  /\ pass' = pass + 1
  /\ runPc' = "listing"
  /\ UNCHANGED <<bStore, fetched, tasks, stopOffered, runErrors, outputs, commitsDone>>
  /\ UNCHANGED runOthers
  /\ UNCHANGED runHist

\* a mutant of ListFail: the error is counted and the pass goes on
ListFailGoesOn ==
  /\ runPc = "listing"
  /\ runErrors' = runErrors + 1
  /\ runPc' = "fetching"
  /\ passLog' = [passLog EXCEPT ![pass].list = "failed", ![pass].errors = @ + 1]
  /\ UNCHANGED <<bStore, pass, fetched, tasks, stopOffered, timerFired, outputs, commitsDone>>
  /\ UNCHANGED <<stopsRecvd, passAtStop, doneSent, lateTimer, offerPc>>
  /\ UNCHANGED runOthers

\* getResources fails: collect returns the error, HandleError counts it
ListFail ==
  /\ runPc = "listing"
  /\ runErrors' = runErrors + 1
  /\ runPc' = "waiting"
  /\ passLog' = [passLog EXCEPT ![pass].list = "failed", ![pass].errors = @ + 1]
  /\ UNCHANGED <<bStore, pass, fetched, tasks, stopOffered, timerFired, outputs, commitsDone>>
  /\ UNCHANGED <<stopsRecvd, passAtStop, doneSent, lateTimer, offerPc>>
  /\ UNCHANGED runOthers

\* getResources succeeds; getMetrics builds the batches and gets the client
ListOk ==
  /\ runPc = "listing"
  /\ fetched' = 0
  /\ runPc' = "fetching"
  /\ passLog' = [passLog EXCEPT ![pass].list = "ok"]
  /\ UNCHANGED <<bStore, pass, tasks, stopOffered, timerFired, runErrors, outputs, commitsDone>>
  /\ UNCHANGED <<stopsRecvd, passAtStop, doneSent, lateTimer, offerPc>>
  /\ UNCHANGED runOthers

\* b.client() fails: HandleError counts it, getMetrics returns, nothing stored
ClientFail ==
  /\ runPc = "fetching"
  /\ runErrors' = runErrors + 1
  /\ runPc' = "waiting"
  /\ passLog' = [passLog EXCEPT ![pass].errors = @ + 1]
  /\ UNCHANGED <<bStore, pass, fetched, tasks, stopOffered, timerFired, outputs, commitsDone>>
  /\ UNCHANGED <<stopsRecvd, passAtStop, doneSent, lateTimer, offerPc>>
  /\ UNCHANGED runOthers

\* a mutant of FetchDone: storeResults is called, not started as a goroutine
FetchDoneInline ==
  \E values \in 0..MaxLines, failedBatches \in 0..1 :
    /\ runPc = "fetching"
    /\ fetched' = values
    /\ runErrors' = runErrors + failedBatches
    /\ bStore' = Commit(Add(bStore, FormatOutput(pass, values)))
    /\ outputs' = outputs \cup {FormatOutput(pass, values)}
    /\ commitsDone' = commitsDone + 1
    /\ tasks' = [tasks EXCEPT ![pass] = [pc |-> "done", values |-> values]]
    /\ runPc' = "waiting"
    /\ passLog' = [passLog EXCEPT ![pass].fetch = TRUE, ![pass].errors = @ + failedBatches]
    /\ UNCHANGED <<pass, stopOffered, timerFired>>
    /\ UNCHANGED <<stopsRecvd, passAtStop, doneSent, lateTimer, offerPc>>
    /\ UNCHANGED runOthers

\* a mutant of FetchDone: one index shared by the passes, so that the merge
\* of this pass writes what the open tasks of earlier passes read
FetchDoneSharedIndex ==
  \E values \in 0..MaxLines, failedBatches \in 0..1 :
    /\ runPc = "fetching"
    /\ fetched' = values
    /\ runErrors' = runErrors + failedBatches
    /\ tasks' = [k \in 1..MaxPasses |->
                   IF k = pass THEN [pc |-> "add", values |-> values]
                   ELSE IF tasks[k].pc = "none" THEN tasks[k]
                   ELSE [tasks[k] EXCEPT !.values = values]]
    /\ runPc' = "waiting"
    /\ passLog' = [passLog EXCEPT ![pass].fetch = TRUE, ![pass].errors = @ + failedBatches]
    /\ UNCHANGED <<bStore, pass, stopOffered, timerFired, outputs, commitsDone>>
    /\ UNCHANGED <<stopsRecvd, passAtStop, doneSent, lateTimer, offerPc>>
    /\ UNCHANGED runOthers

\* b.client() succeeds; GetMetricData returns (a failed batch is counted and gives nothing),
\* AddResults merges the values, go b.storeResults(index)
FetchDone ==
  \E values \in 0..MaxLines, failedBatches \in 0..1 :
    /\ runPc = "fetching"
    /\ fetched' = values
    /\ runErrors' = runErrors + failedBatches
    /\ tasks' = [tasks EXCEPT ![pass] = [pc |-> "add", values |-> values]]
    /\ runPc' = "waiting"
    /\ passLog' = [passLog EXCEPT ![pass].fetch = TRUE, ![pass].errors = @ + failedBatches]
    /\ UNCHANGED <<bStore, pass, stopOffered, timerFired, outputs, commitsDone>>
    /\ UNCHANGED <<stopsRecvd, passAtStop, doneSent, lateTimer, offerPc>>
    /\ UNCHANGED runOthers

\* a mutant of TaskAdd: the task commits before it adds
TaskAddAfterCommit ==
  \E k \in 1..MaxPasses :
    /\ tasks[k].pc = "add"
    /\ bStore' = Add(Commit(bStore), FormatOutput(k, tasks[k].values))
    /\ outputs' = outputs \cup {FormatOutput(k, tasks[k].values)}
    /\ commitsDone' = commitsDone + 1
    /\ tasks' = [tasks EXCEPT ![k].pc = "done"]
    /\ UNCHANGED <<runPc, pass, fetched, stopOffered, timerFired, runErrors>>
    /\ UNCHANGED runOthers
    /\ UNCHANGED runHist

\* storeResults of pass k: format the index into buf, b.store.Add(buf.String())
TaskAdd ==
  \E k \in 1..MaxPasses :
    /\ tasks[k].pc = "add"
    /\ bStore' = Add(bStore, FormatOutput(k, tasks[k].values))
    /\ outputs' = outputs \cup {FormatOutput(k, tasks[k].values)}
    /\ tasks' = [tasks EXCEPT ![k].pc = "commit"]
    /\ UNCHANGED <<runPc, pass, fetched, stopOffered, timerFired, runErrors, commitsDone>>
    /\ UNCHANGED runOthers
    /\ UNCHANGED runHist

\* storeResults of pass k: b.store.Commit()
TaskCommit ==
  \E k \in 1..MaxPasses :
    /\ tasks[k].pc = "commit"
    /\ bStore' = Commit(bStore)
    /\ commitsDone' = commitsDone + 1
    /\ tasks' = [tasks EXCEPT ![k].pc = "done"]
    /\ UNCHANGED <<runPc, pass, fetched, stopOffered, timerFired, runErrors, outputs>>
    /\ UNCHANGED runOthers
    /\ UNCHANGED runHist

\* somebody sends on proc.Stop and blocks until the loop receives, for ever
\* when the loop has returned
StopOffer ==
  /\ runPc # "created"
  /\ ~stopOffered
  /\ stopOffered' = TRUE
  /\ offerPc' = runPc
  /\ UNCHANGED <<bStore, runPc, pass, fetched, tasks, timerFired, runErrors, outputs, commitsDone>>
  /\ UNCHANGED <<stopsRecvd, passAtStop, doneSent, lateTimer, passLog>>
  /\ UNCHANGED runOthers

\* a mutant of StopRecv: the stop case leaves the select only, not the loop
StopRecvBreak ==
  /\ runPc = "waiting"
  /\ stopOffered
  /\ stopOffered' = FALSE
  /\ runPc' = "waiting"
  /\ stopsRecvd' = stopsRecvd + 1
  /\ passAtStop' = pass
  /\ UNCHANGED <<bStore, pass, fetched, tasks, timerFired, runErrors, outputs, commitsDone>>
  /\ UNCHANGED <<doneSent, lateTimer, passLog, offerPc>>
  /\ UNCHANGED runOthers

\* a mutant of StopRecv: the stop is taken wherever the goroutine is
StopRecvAnywhere ==
  /\ runPc \in {"first", "listing", "fetching", "waiting"}
  /\ stopOffered
  /\ stopOffered' = FALSE
  /\ runPc' = "sendDone"
  /\ stopsRecvd' = stopsRecvd + 1
  /\ passAtStop' = pass
  /\ UNCHANGED <<bStore, pass, fetched, tasks, timerFired, runErrors, outputs, commitsDone>>
  /\ UNCHANGED <<doneSent, lateTimer, passLog, offerPc>>
  /\ UNCHANGED runOthers

\* case <-proc.Stop
StopRecv ==
  /\ runPc = "waiting"
  /\ stopOffered
  /\ stopOffered' = FALSE
  /\ runPc' = "sendDone"
  /\ stopsRecvd' = stopsRecvd + 1
  /\ passAtStop' = pass
  /\ UNCHANGED <<bStore, pass, fetched, tasks, timerFired, runErrors, outputs, commitsDone>>
  /\ UNCHANGED <<doneSent, lateTimer, passLog, offerPc>>
  /\ UNCHANGED runOthers

\* the timer of the select that took the stop fires: its channel is read by
\* nobody, the loop is past the select
TimerLate ==
  /\ runPc \in {"sendDone", "stopped"}
  /\ ~lateTimer
  /\ lateTimer' = TRUE
  /\ UNCHANGED <<bStore, runPc, pass, fetched, tasks, stopOffered, timerFired, runErrors, outputs, commitsDone>>
  /\ UNCHANGED <<stopsRecvd, passAtStop, doneSent, passLog, offerPc>>
  /\ UNCHANGED runOthers

\* main's fan-in goroutine receives from proc.Done: the send completes and
\* the loop returns
DoneRecv ==
  /\ runPc = "sendDone"
  /\ runPc' = "stopped"
  /\ doneSent' = doneSent + 1
  /\ UNCHANGED <<bStore, pass, fetched, tasks, stopOffered, timerFired, runErrors, outputs, commitsDone>>
  /\ UNCHANGED <<stopsRecvd, passAtStop, lateTimer, passLog, offerPc>>
  /\ UNCHANGED runOthers

NextRun ==
  \/ RunStart
  \/ FirstPass
  \/ TimerFire
  \/ ListFail
  \/ ListOk
  \/ ClientFail
  \/ FetchDone
  \/ TaskAdd
  \/ TaskCommit
  \/ StopOffer
  \/ StopRecv
  \/ TimerLate
  \/ DoneRecv

SpecRun == InitRun /\ [][NextRun]_vars

\* main's fan-in goroutine is blocked in <-proc.Done from the start of the
\* collector on: a send on proc.Done is received
FairSpecRun == SpecRun /\ WF_vars(DoneRecv)

\* the steps of the loop's goroutine inside a pass
PassSteps ==
  \/ FirstPass
  \/ ListFail
  \/ ListOk
  \/ ClientFail
  \/ FetchDone

\* in addition every pass terminates (the provider answers), and the select
\* takes the stop case at last: Go's select chooses among its ready cases
\* at random, and the sender stays blocked on proc.Stop until it is received
LiveSpecRun ==
  /\ SpecRun
  /\ WF_vars(DoneRecv)
  /\ WF_vars(PassSteps)
  /\ SF_vars(StopRecv)

(***************************************************************************)
(* SpecFetch: getMetrics from client.GetMetricData on.  GetMetricData      *)
(* starts one goroutine per request payload; a goroutine asks the provider *)
(* for the pages of its payload one after the other and appends the        *)
(* results of each page to the shared slice res.r under res's mutex.  The  *)
(* provider is free in what it answers: a page or an error, the last page  *)
(* or not; it files the results of a payload under the id of the query or  *)
(* under another id.  A payload b carries one query, the one of resource b *)
(* and pair 0; a result carries its id and, as its values, the payload and *)
(* page it came with.                                                      *)
(*                                                                         *)
(* fetchPc: "spawn"    in GetMetricData, up to wg.Wait()                   *)
(*          "returned" GetMetricData has returned                          *)
(*          "added"    index.AddResults done, storeResults dispatched      *)
(*          "stored"   storeResults has formatted, Added and Committed     *)
(***************************************************************************)
QueryIdOf(b) == <<b, 0>>

\* an id that no query of the pass has
OrphanId == <<0, 0>>

NoResults == [x \in {} |-> x]

NoGr == [pc |-> "none", page |-> 0, held |-> <<>>, last |-> FALSE, seen |-> <<>>]

\* for _, r := range *res { i.Results[*r.Id] = r }
RECURSIVE AddResultsTo(_, _)
AddResultsTo(results, rs) ==
  IF rs = <<>> THEN results
  ELSE LET r == Head(rs)
           put == [x \in DOMAIN results \cup {r.Id} |->
                     IF x = r.Id THEN r ELSE results[x]]
       IN  AddResultsTo(put, Tail(rs))

AddResults(idx, rs) == [idx EXCEPT !.Results = AddResultsTo(@, rs)]

\* for i, v := range res.Values: one sample line per value, of the resource,
\* the query and the value
LinesOf(id, query, result) ==
  [i \in 1..Len(result.Values) |-> <<id, query, result.Values[i]>>]

\* a mutant of FormatIndex: a query without a result takes any result there is
RECURSIVE FormatIndexAnyResult(_, _)
FormatIndexAnyResult(idx, order) ==
  IF order = <<>> THEN <<>>
  ELSE LET id == Head(order)
           lines == [j \in 1..Len(idx.Queries[id]) |->
                       IF idx.Queries[id][j] \in DOMAIN idx.Results
                       THEN LinesOf(id, idx.Queries[id][j], idx.Results[idx.Queries[id][j]])
                       ELSE IF DOMAIN idx.Results # {}
                       THEN LinesOf(id, idx.Queries[id][j],
                                    idx.Results[CHOOSE x \in DOMAIN idx.Results : TRUE])
                       ELSE <<>>]
       IN  Flatten(lines) \o FormatIndexAnyResult(idx, Tail(order))

\* the sample lines storeResults formats for the resources in the given
\* order: for each query of the resource, the values of the result under the
\* query's id, and nothing when there is none (continue)
RECURSIVE FormatIndex(_, _)
FormatIndex(idx, order) ==
  IF order = <<>> THEN <<>>
  ELSE LET id == Head(order)
           lines == [j \in 1..Len(idx.Queries[id]) |->
                       IF idx.Queries[id][j] \in DOMAIN idx.Results
                       THEN LinesOf(id, idx.Queries[id][j], idx.Results[idx.Queries[id][j]])
                       ELSE <<>>]
       IN  Flatten(lines) \o FormatIndex(idx, Tail(order))

InitFetch ==
  /\ fetchIn \in {[b \in 1..n |-> QueryIdOf(b)] : n \in 0..MaxFetchBatches}
  /\ provider \in [1..Len(fetchIn) -> {fetchIn[b] : b \in 1..Len(fetchIn)} \cup {OrphanId}]
  /\ \A b \in 1..Len(fetchIn) : provider[b] \in {fetchIn[b], OrphanId}
  /\ fetchPc = "spawn"
  /\ gr = [b \in 1..Len(fetchIn) |-> NoGr]
  /\ resLock = 0
  /\ resR = <<>>
  /\ wg = 0
  /\ teleErrors = 0
  /\ failed = {}
  /\ requests = [b \in 1..Len(fetchIn) |-> 0]
  /\ fetchRet = NoValue
  /\ fetchIndex = [Queries |-> [b \in 1..Len(fetchIn) |-> <<fetchIn[b]>>],
                   Results |-> NoResults]
  /\ fetchOut = NoValue
  /\ IdleStore
  /\ IdleMain
  /\ IdleBatch
  /\ IdleRun
  /\ IdleFilter
  /\ IdleQuery
  /\ IdleLoad
  /\ IdleLabel
  /\ IdleConc
  /\ IdleIdx
  /\ IdleDim

\* for _, input := range in: wg.Add(1); go func(ip) {...}(input)
FetchSpawn ==
  \E b \in 1..Len(fetchIn) :
    /\ fetchPc = "spawn"
    /\ gr[b].pc = "none"
    /\ \A a \in 1..(b - 1) : gr[a].pc # "none"
    /\ wg' = wg + 1
    /\ gr' = [gr EXCEPT ![b].pc = "fetch"]
    /\ UNCHANGED <<fetchIn, provider, fetchPc, resLock, resR, teleErrors, failed, requests,
                   fetchRet, fetchIndex, fetchOut>>
    /\ UNCHANGED fetchOthers

\* the provider answers the request for the next page of payload b
GrPageOk ==
  \E b \in 1..Len(fetchIn), last \in BOOLEAN :
    /\ gr[b].pc = "fetch"
    /\ gr[b].page < MaxPages
    /\ (gr[b].page + 1 = MaxPages) => last
    /\ requests' = [requests EXCEPT ![b] = @ + 1]
    /\ gr' = [gr EXCEPT ![b] = [pc |-> "lock", page |-> gr[b].page + 1,
                                held |-> [Id |-> provider[b],
                                          Values |-> <<b, gr[b].page + 1>>],
                                last |-> last, seen |-> <<>>]]
    /\ UNCHANGED <<fetchIn, provider, fetchPc, resLock, resR, wg, teleErrors, failed,
                   fetchRet, fetchIndex, fetchOut>>
    /\ UNCHANGED fetchOthers

\* the request for the next page of payload b fails: log, ErrorCount.Inc(),
\* the goroutine ends (deferred wg.Done())
GrPageFail ==
  \E b \in 1..Len(fetchIn) :
    /\ gr[b].pc = "fetch"
    /\ gr[b].page < MaxPages
    /\ requests' = [requests EXCEPT ![b] = @ + 1]
    /\ teleErrors' = teleErrors + 1
    /\ failed' = failed \cup {b}
    /\ wg' = wg - 1
    /\ gr' = [gr EXCEPT ![b].pc = "done"]
    /\ UNCHANGED <<fetchIn, provider, fetchPc, resLock, resR, fetchRet, fetchIndex, fetchOut>>
    /\ UNCHANGED fetchOthers

\* a mutant of GrLock: the goroutine goes on whether or not the lock is free
GrLockNoWait ==
  \E b \in 1..Len(fetchIn) :
    /\ gr[b].pc = "lock"
    /\ resLock' = b
    /\ gr' = [gr EXCEPT ![b].pc = "append"]
    /\ UNCHANGED <<fetchIn, provider, fetchPc, resR, wg, teleErrors, failed, requests,
                   fetchRet, fetchIndex, fetchOut>>
    /\ UNCHANGED fetchOthers

\* res.Lock()
GrLock ==
  \E b \in 1..Len(fetchIn) :
    /\ gr[b].pc = "lock"
    /\ resLock = 0
    /\ resLock' = b
    /\ gr' = [gr EXCEPT ![b].pc = "append"]
    /\ UNCHANGED <<fetchIn, provider, fetchPc, resR, wg, teleErrors, failed, requests,
                   fetchRet, fetchIndex, fetchOut>>
    /\ UNCHANGED fetchOthers

\* res.r = append(res.r, page.MetricDataResults...): res.r is read
GrAppendRead ==
  \E b \in 1..Len(fetchIn) :
    /\ gr[b].pc = "append"
    /\ gr' = [gr EXCEPT ![b].seen = resR, ![b].pc = "write"]
    /\ UNCHANGED <<fetchIn, provider, fetchPc, resLock, resR, wg, teleErrors, failed, requests,
                   fetchRet, fetchIndex, fetchOut>>
    /\ UNCHANGED fetchOthers

\* a mutant of GrAppend: the lock is kept when more pages are to come
GrAppendKeepsLock ==
  \E b \in 1..Len(fetchIn) :
    /\ gr[b].pc = "write"
    /\ resR' = Append(gr[b].seen, gr[b].held)
    /\ resLock' = IF gr[b].last THEN 0 ELSE b
    /\ gr' = [gr EXCEPT ![b].pc = IF gr[b].last THEN "done" ELSE "fetch"]
    /\ wg' = IF gr[b].last THEN wg - 1 ELSE wg
    /\ UNCHANGED <<fetchIn, provider, fetchPc, teleErrors, failed, requests,
                   fetchRet, fetchIndex, fetchOut>>
    /\ UNCHANGED fetchOthers

\* ... res.r is written; res.Unlock(); after the last page the goroutine
\* ends (deferred wg.Done())
GrAppend ==
  \E b \in 1..Len(fetchIn) :
    /\ gr[b].pc = "write"
    /\ resR' = Append(gr[b].seen, gr[b].held)
    /\ resLock' = 0
    /\ gr' = [gr EXCEPT ![b].pc = IF gr[b].last THEN "done" ELSE "fetch"]
    /\ wg' = IF gr[b].last THEN wg - 1 ELSE wg
    /\ UNCHANGED <<fetchIn, provider, fetchPc, teleErrors, failed, requests,
                   fetchRet, fetchIndex, fetchOut>>
    /\ UNCHANGED fetchOthers

\* a mutant of FetchReturn: without wg.Wait()
FetchReturnNoWait ==
  /\ fetchPc = "spawn"
  /\ \A b \in 1..Len(fetchIn) : gr[b].pc # "none"
  /\ fetchRet' = [r |-> resR, err |-> "nil"]
  /\ fetchPc' = "returned"
  /\ UNCHANGED <<fetchIn, provider, gr, resLock, resR, wg, teleErrors, failed, requests,
                 fetchIndex, fetchOut>>
  /\ UNCHANGED fetchOthers

\* wg.Wait() is over: return &res.r, nil
FetchReturn ==
  /\ fetchPc = "spawn"
  /\ \A b \in 1..Len(fetchIn) : gr[b].pc # "none"
  /\ wg = 0
  /\ fetchRet' = [r |-> resR, err |-> "nil"]
  /\ fetchPc' = "returned"
  /\ UNCHANGED <<fetchIn, provider, gr, resLock, resR, wg, teleErrors, failed, requests,
                 fetchIndex, fetchOut>>
  /\ UNCHANGED fetchOthers

\* getMetrics: err is nil; index.AddResults(res); go b.storeResults(index)
FetchAddResults ==
  /\ fetchPc = "returned"
  /\ fetchRet.err = "nil"
  /\ fetchIndex' = AddResults(fetchIndex, fetchRet.r)
  /\ fetchPc' = "added"
  /\ UNCHANGED <<fetchIn, provider, gr, resLock, resR, wg, teleErrors, failed, requests,
                 fetchRet, fetchOut>>
  /\ UNCHANGED fetchOthers

\* storeResults ranges over index.Resources in the order the map gives,
\* formats, Adds and Commits
FetchStoreResults ==
  \E order \in Perms(1..Len(fetchIn)) :
    /\ fetchPc = "added"
    /\ fetchOut' = String(Commit(Add(NewStore, FormatIndex(fetchIndex, order))))
    /\ fetchPc' = "stored"
    /\ UNCHANGED <<fetchIn, provider, gr, resLock, resR, wg, teleErrors, failed, requests,
                   fetchRet, fetchIndex>>
    /\ UNCHANGED fetchOthers

NextFetch ==
  \/ FetchSpawn
  \/ GrPageOk
  \/ GrPageFail
  \/ GrLock
  \/ GrAppendRead
  \/ GrAppend
  \/ FetchReturn
  \/ FetchAddResults
  \/ FetchStoreResults

SpecFetch == InitFetch /\ [][NextFetch]_vars

(***************************************************************************)
(* SpecFilter: filter called once on a listing of autoscaling groups and a *)
(* list of tag filters.  A group is its list of tags; the keys of one      *)
(* group's tags differ from each other, as the provider guarantees.  The   *)
(* list of filters is what the configuration file says: it may repeat a    *)
(* filter.                                                                 *)
(***************************************************************************)
TagKeys == {"a", "b"}

TagValues == {"x", "y"}

Tags == [Key : TagKeys, Value : TagValues]

UniqueKeys(tags) ==
  \A i, j \in 1..Len(tags) : i # j => tags[i].Key # tags[j].Key

Groups == [Tags : {tags \in SeqsUpTo(Tags, MaxTags) : UniqueKeys(tags)}]

\* for _, g := range g.Tags { tagMap[*g.Key] = *g.Value }
tagMapOf(tags) ==
  [k \in {tags[i].Key : i \in 1..Len(tags)} |->
     tags[CHOOSE i \in 1..Len(tags) :
            /\ tags[i].Key = k
            /\ \A j \in (i + 1)..Len(tags) : tags[j].Key # k].Value]

\* a mutant of filterKeeps: without the comparison of the two lengths
filterKeepsAnyLength(g, filters) ==
  LET tagMap == tagMapOf(g.Tags)
  IN  \A i \in 1..Len(filters) :
        /\ filters[i].Key \in DOMAIN tagMap
        /\ tagMap[filters[i].Key] = filters[i].Value

\* the body of filter's loop: whether group g reaches res = append(res, g)
filterKeeps(g, filters) ==
  IF Len(g.Tags) >= Len(filters)
  THEN LET tagMap == tagMapOf(g.Tags)
       IN  \A i \in 1..Len(filters) :
             /\ filters[i].Key \in DOMAIN tagMap
             /\ tagMap[filters[i].Key] = filters[i].Value
  ELSE FALSE

filter(gs, filters) == SelectSeq(gs, LAMBDA g : filterKeeps(g, filters))

InitFilter ==
  /\ groups \in SeqsUpTo(Groups, MaxGroups)
  /\ tf \in SeqsUpTo(Tags, MaxFilters)
  /\ filterPc = "call"
  /\ res = <<>>
  /\ IdleStore
  /\ IdleMain
  /\ IdleBatch
  /\ IdleRun
  /\ IdleFetch
  /\ IdleQuery
  /\ IdleLoad
  /\ IdleLabel
  /\ IdleConc
  /\ IdleIdx
  /\ IdleDim

FilterCall ==
  /\ filterPc = "call"
  /\ res' = filter(groups, tf)
  /\ filterPc' = "done"
  /\ UNCHANGED <<groups, tf>>
  /\ UNCHANGED filterOthers

NextFilter ==
  \/ FilterCall

SpecFilter == InitFilter /\ [][NextFilter]_vars

(***************************************************************************)
(* SpecQueries: makeQueries in full, called on a fresh index of the same   *)
(* resources and with the same configuration once per pass.  A resource is *)
(* its ARN: whether arn.Parse accepts it, its resource part, and the sha1  *)
(* of its text, which is the resource id.  Strings are sequences of        *)
(* characters, so that the query id is the text Sprintf builds.            *)
(***************************************************************************)
ARNs ==
  {[valid |-> TRUE, Resource |-> <<"volume/", "vol-A">>, sha1 |-> <<"a", "1">>],
   [valid |-> TRUE, Resource |-> <<"volume/", "vol-B">>, sha1 |-> <<"1", "a">>],
   [valid |-> FALSE, Resource |-> <<>>, sha1 |-> <<"1", "1">>],
   [valid |-> FALSE, Resource |-> <<>>, sha1 |-> <<"a", "a">>]}

\* id(r): the sha1 of the resource's ARN, in hex
id(r) == r.ResourceARN.sha1

MetricStats == [MetricName : {"M1", "M2"}, Stat : {"Sum", "Average"}]

QueryConfigs ==
  [MetricStats : SeqsUpTo(MetricStats, MaxPairs), Period : {300},
   dimension : {"VolumeId"}, resourcePrefix : {"volume/"}]

\* index.Resources for every choice of at most MaxQueryResources ARNs
ResourceMaps ==
  {[rid \in {a.sha1 : a \in S} |-> [ResourceARN |-> CHOOSE a \in S : a.sha1 = rid]] :
     S \in {T \in SUBSET ARNs : Cardinality(T) <= MaxQueryResources}}

Digit(d) == <<"0", "1", "2", "3", "4", "5", "6", "7", "8", "9">>[d + 1]

\* %d
RECURSIVE Decimal(_)
Decimal(i) ==
  IF i < 10 THEN <<Digit(i)>> ELSE Decimal(i \div 10) \o <<Digit(i % 10)>>

\* a mutant of SprintfId: the resource id is left out
SprintfIdNoResource(rid, i) == <<"i", "d">> \o <<"_">> \o <<"_">> \o Decimal(i)

\* fmt.Sprintf("%s_%s_%d", "id", id, i)
SprintfId(rid, i) == <<"i", "d">> \o <<"_">> \o rid \o <<"_">> \o Decimal(i)

TrimPrefix(str, prefix) ==
  IF str # <<>> /\ Head(str) = prefix THEN Tail(str) ELSE str

\* defaultMetricDimension(dimension, resourcePrefix)(resource)
dimensionsOf(r, cfg) ==
  IF r.ResourceARN.valid
  THEN [err |-> FALSE,
        d |-> <<[Name |-> cfg.dimension,
                 Value |-> TrimPrefix(r.ResourceARN.Resource, cfg.resourcePrefix)]>>]
  ELSE [err |-> TRUE, d |-> <<>>]

\* a mutant of MetricDataQuery: every query carries the first pair
MetricDataQueryFirstPair(rid, i, d, cfg) ==
  [Id |-> SprintfId(rid, i),
   MetricName |-> cfg.MetricStats[1].MetricName,
   Stat |-> cfg.MetricStats[1].Stat,
   Period |-> cfg.Period,
   Dimensions |-> d]

\* the query built for resource rid and the pair at position i (from 0)
MetricDataQuery(rid, i, d, cfg) ==
  [Id |-> SprintfId(rid, i),
   MetricName |-> cfg.MetricStats[i + 1].MetricName,
   Stat |-> cfg.MetricStats[i + 1].Stat,
   Period |-> cfg.Period,
   Dimensions |-> d]

\* index.Queries[id] = append(index.Queries[id], &query)
AppendQuery(queries, rid, query) ==
  [x \in DOMAIN queries \cup {rid} |->
     IF x = rid
     THEN (IF rid \in DOMAIN queries THEN Append(queries[rid], query) ELSE <<query>>)
     ELSE queries[x]]

\* a mutant of makeQueriesPair: the error is counted and the query built all the same
makeQueriesPairKeepsGoing(acc, rid, r, i, cfg) ==
  LET dim == dimensionsOf(r, cfg)
      query == MetricDataQuery(rid, i, dim.d, cfg)
  IN  [dataQuery |-> Append(acc.dataQuery, query),
       Queries |-> AppendQuery(acc.Queries, rid, query),
       errors |-> IF dim.err THEN acc.errors + 1 ELSE acc.errors]

\* the body of the inner loop, for resource rid and the pair at position i
makeQueriesPair(acc, rid, r, i, cfg) ==
  LET dim == dimensionsOf(r, cfg)
      query == MetricDataQuery(rid, i, dim.d, cfg)
  IN  IF dim.err
      THEN [acc EXCEPT !.errors = @ + 1]
      ELSE [dataQuery |-> Append(acc.dataQuery, query),
            Queries |-> AppendQuery(acc.Queries, rid, query),
            errors |-> acc.errors]

\* for i, s := range b.config.MetricStats, from position i on
RECURSIVE makeQueriesPairs(_, _, _, _, _)
makeQueriesPairs(acc, rid, r, i, cfg) ==
  IF i >= Len(cfg.MetricStats) THEN acc
  ELSE makeQueriesPairs(makeQueriesPair(acc, rid, r, i, cfg), rid, r, i + 1, cfg)

\* for id, r := range index.Resources, in the order the map gives
RECURSIVE makeQueriesResources(_, _, _, _)
makeQueriesResources(acc, order, resources, cfg) ==
  IF order = <<>> THEN acc
  ELSE makeQueriesResources(
         makeQueriesPairs(acc, Head(order), resources[Head(order)], 0, cfg),
         Tail(order), resources, cfg)

InitQueries ==
  /\ qResources \in ResourceMaps
  /\ qConfig \in QueryConfigs
  /\ builds = <<>>
  /\ IdleStore
  /\ IdleMain
  /\ IdleBatch
  /\ IdleRun
  /\ IdleFetch
  /\ IdleFilter
  /\ IdleLoad
  /\ IdleLabel
  /\ IdleConc
  /\ IdleIdx
  /\ IdleDim

\* makeQueries on a fresh index of the resources: Queries and the error
\* counter start empty
MakeQueriesCall ==
  \E order \in Perms(DOMAIN qResources) :
    /\ Len(builds) < MaxBuilds
    /\ LET out == makeQueriesResources(
                      [dataQuery |-> <<>>, Queries |-> NoResults, errors |-> 0],
                      order, qResources, qConfig)
       IN  builds' = Append(builds, [order |-> order, dataQuery |-> out.dataQuery,
                                     Queries |-> out.Queries, errors |-> out.errors])
    /\ UNCHANGED <<qResources, qConfig>>
    /\ UNCHANGED queryOthers

NextQueries ==
  \/ MakeQueriesCall

SpecQueries == InitQueries /\ [][NextQueries]_vars

(***************************************************************************)
(* SpecLoad: main from its first line.  loadConfig unmarshals the YAML     *)
(* file, building a collector from every entry with CollectorFromConfig;   *)
(* dieOnError ends the process when loading failed; otherwise main goes on *)
(* with the start-up loop of SpecMain over the collectors built.           *)
(***************************************************************************)
\* the keys of the collectorTypes map
collectorTypes == {"alb", "ebs", "ec", "elb", "nlb", "sqs", "rds", "neptune"}

\* the type strings of the configuration files considered
TypeStrings == {"ebs", "rds", "asg", "ec_host", "", "not such type", "EBS"}

RawConfigs == [Type : TypeStrings, Offset : {0, 1}, Interval : {1}]

\* a nil MetricCollector
NoCollector == [kind |-> "nil", Offset |-> 0, Interval |-> 0]

CollectorFromConfig(c) ==
  IF c.Type \in collectorTypes
  THEN [collector |-> [kind |-> "base", Offset |-> c.Offset, Interval |-> c.Interval],
        err |-> "nil"]
  ELSE CASE c.Type = "asg" ->
              [collector |-> [kind |-> "asg", Offset |-> c.Offset, Interval |-> c.Interval],
               err |-> "nil"]
         [] c.Type = "ec_host" ->
              [collector |-> [kind |-> "ec_host", Offset |-> c.Offset, Interval |-> c.Interval],
               err |-> "nil"]
         [] OTHER -> [collector |-> NoCollector, err |-> "ErrNoSuchCollectorType"]

\* a mutant of UnmarshalCollectors: an entry that gives an error is skipped
RECURSIVE UnmarshalCollectorsSkip(_, _)
UnmarshalCollectorsSkip(raw, acc) ==
  IF raw = <<>> THEN [Collectors |-> acc, err |-> "nil"]
  ELSE LET built == CollectorFromConfig(Head(raw))
       IN  IF built.err # "nil"
           THEN UnmarshalCollectorsSkip(Tail(raw), acc)
           ELSE UnmarshalCollectorsSkip(Tail(raw), Append(acc, built.collector))

\* UnmarshalYAML: for _, v := range t.Collectors, with c.Collectors = acc
RECURSIVE UnmarshalCollectors(_, _)
UnmarshalCollectors(raw, acc) ==
  IF raw = <<>> THEN [Collectors |-> acc, err |-> "nil"]
  ELSE LET built == CollectorFromConfig(Head(raw))
       IN  IF built.err # "nil"
           THEN [Collectors |-> acc, err |-> built.err]
           ELSE UnmarshalCollectors(Tail(raw), Append(acc, built.collector))

InitLoad ==
  /\ rawCollectors \in SeqsUpTo(RawConfigs, MaxCollectors)
  /\ parsed = NoValue
  /\ exitCode = 0
  /\ conf = <<>>
  /\ mainPc = "load"
  /\ cursor = 1
  /\ verdict = <<>>
  /\ proc = <<>>
  /\ collectors = {}
  /\ errorCount = <<>>
  /\ IdleStore
  /\ IdleBatch
  /\ IdleRun
  /\ IdleFetch
  /\ IdleFilter
  /\ IdleQuery
  /\ IdleLabel
  /\ IdleConc
  /\ IdleIdx
  /\ IdleDim

\* conf, err := loadConfig(configFile)
LoadConfig ==
  /\ mainPc = "load"
  /\ parsed' = UnmarshalCollectors(rawCollectors, <<>>)
  /\ mainPc' = "loaded"
  /\ UNCHANGED <<rawCollectors, exitCode>>
  /\ UNCHANGED <<conf, cursor, verdict, proc, collectors, errorCount>>
  /\ UNCHANGED loadMainOthers

\* dieOnError(err) with an error: os.Exit(1)
DieOnError ==
  /\ mainPc = "loaded"
  /\ parsed.err # "nil"
  /\ exitCode' = 1
  /\ mainPc' = "exit"
  /\ UNCHANGED <<rawCollectors, parsed>>
  /\ UNCHANGED <<conf, cursor, verdict, proc, collectors, errorCount>>
  /\ UNCHANGED loadMainOthers

\* dieOnError(err) without an error: main goes on with conf
LoadOk ==
  /\ mainPc = "loaded"
  /\ parsed.err = "nil"
  /\ conf' = parsed.Collectors
  /\ proc' = [i \in 1..Len(parsed.Collectors) |-> CreatedProc]
  /\ errorCount' = [i \in 1..Len(parsed.Collectors) |-> 0]
  /\ mainPc' = "start"
  /\ UNCHANGED <<rawCollectors, parsed, exitCode>>
  /\ UNCHANGED <<cursor, verdict, collectors>>
  /\ UNCHANGED loadMainOthers

NextLoad ==
  \/ LoadConfig
  \/ DieOnError
  \/ LoadOk
  \/ MainNoCollectors
  \/ MainStart
  \/ MainInvalid
  \/ MainRun
  \/ MainServe
  \/ CollectorPass

SpecLoad == InitLoad /\ [][NextLoad]_vars

(***************************************************************************)
(* SpecConvert and SpecEscape: the label renderer.  Strings are sequences  *)
(* of one-character strings.  SpecConvert calls convertTags on a bounded   *)
(* resource, merge-tag list and extra tags; SpecEscape calls escapeValue   *)
(* on every bounded tag value made of an ordinary character, the double    *)
(* quote and the backslash.                                                *)
(***************************************************************************)
LowerChars == {"k", "p", "c", "t", "n", "v"}

UpperChars == {"K"}

DigitChars == {"0", "1", "2", "3", "4", "5", "6", "7", "8", "9"}

\* strings.ToLower on one character
ToLowerChar(c) == IF c = "K" THEN "k" ELSE c

\* the replacer table of sanitize, applied to one character
sanitizeChar(c) ==
  IF c \in {" ", ",", ".", ":", "-", "=", "/"} THEN <<"_">>
  ELSE IF c = "%" THEN <<"_", "p", "c", "t">>
  ELSE <<c>>

\* replacer.Replace(str): one pass from left to right over str
RECURSIVE sanitize(_)
sanitize(str) ==
  IF str = <<>> THEN <<>> ELSE sanitizeChar(Head(str)) \o sanitize(Tail(str))

\* the length of the run of lower-case letters that str starts with
RECURSIVE LowerRun(_)
LowerRun(str) ==
  IF str # <<>> /\ Head(str) \in LowerChars THEN 1 + LowerRun(Tail(str)) ELSE 0

\* matchFirstCap.ReplaceAllString(str, "${1}_${2}") with "(.)([A-Z][a-z]+)":
\* the leftmost match, the longest run of lower-case letters, then on from
\* the end of the match
RECURSIVE ReplaceFirstCap(_)
ReplaceFirstCap(str) ==
  IF str = <<>> THEN <<>>
  ELSE IF /\ Len(str) >= 3
          /\ str[2] \in UpperChars
          /\ str[3] \in LowerChars
       THEN LET n == LowerRun(SubSeq(str, 3, Len(str)))
            IN  <<str[1], "_">> \o SubSeq(str, 2, 2 + n)
                  \o ReplaceFirstCap(SubSeq(str, 3 + n, Len(str)))
       ELSE <<Head(str)>> \o ReplaceFirstCap(Tail(str))

\* matchAllCap.ReplaceAllString(s, "${1}_${2}") with "([a-z0-9])([A-Z])"
RECURSIVE ReplaceAllCap(_)
ReplaceAllCap(str) ==
  IF str = <<>> THEN <<>>
  ELSE IF /\ Len(str) >= 2
          /\ str[1] \in LowerChars \cup DigitChars
          /\ str[2] \in UpperChars
       THEN <<str[1], "_", str[2]>> \o ReplaceAllCap(SubSeq(str, 3, Len(str)))
       ELSE <<Head(str)>> \o ReplaceAllCap(Tail(str))

toSnakeCase(str) ==
  LET s == ReplaceAllCap(ReplaceFirstCap(str))
  IN  [i \in 1..Len(s) |-> ToLowerChar(s[i])]

\* strings.ReplaceAll(str, old, new) for a one-character old
RECURSIVE ReplaceAll(_, _, _)
ReplaceAll(str, old, new) ==
  IF str = <<>> THEN <<>>
  ELSE (IF Head(str) = old THEN new ELSE <<Head(str)>>)
         \o ReplaceAll(Tail(str), old, new)

\* a mutant of escapeValue: one full replacement after the other
escapeValueTwoPasses(str) ==
  ReplaceAll(ReplaceAll(str, "\"", <<"\\", "\"">>), "\\", <<"\\", "\\">>)

\* the replacer of escapeValue: each character of str is looked up once, and
\* what is written for it is not looked at again
RECURSIVE escapeValue(_)
escapeValue(str) ==
  IF str = <<>> THEN <<>>
  ELSE (IF Head(str) = "\"" THEN <<"\\", "\"">>
        ELSE IF Head(str) = "\\" THEN <<"\\", "\\">>
        ELSE <<Head(str)>>)
         \o escapeValue(Tail(str))

\* fmt.Fprintf(&buf, `%s="%s"%s`, toSnakeCase(sanitize(*t.Key)), escapeValue(*t.Value), sep)
LabelOf(tag, sep) ==
  toSnakeCase(sanitize(tag.Key)) \o <<"=", "\"">> \o escapeValue(tag.Value) \o <<"\"">> \o sep

RECURSIVE tagsToStringFrom(_, _)
tagsToStringFrom(tags, i) ==
  IF i > Len(tags) THEN <<>>
  ELSE LabelOf(tags[i], IF i = Len(tags) THEN <<>> ELSE <<",">>)
         \o tagsToStringFrom(tags, i + 1)

tagsToString(tags) == tagsToStringFrom(tags, 1)

\* a mutant of mergeLoop: every tag of the resource is appended
RECURSIVE mergeLoopNoLookup(_, _, _)
mergeLoopNoLookup(rtags, merge, tags) ==
  IF rtags = <<>> THEN tags
  ELSE mergeLoopNoLookup(Tail(rtags), merge, Append(tags, Head(rtags)))

\* for _, t := range resource.Tags { if _, ok := merge[*t.Key]; ok { tags = append(tags, t) } }
RECURSIVE mergeLoop(_, _, _)
mergeLoop(rtags, merge, tags) ==
  IF rtags = <<>> THEN tags
  ELSE mergeLoop(Tail(rtags), merge,
                 IF Head(rtags).Key \in merge THEN Append(tags, Head(rtags)) ELSE tags)

convertTags(resource, mergeTags, tags) ==
  LET merge == {mergeTags[i] : i \in 1..Len(mergeTags)}
  IN  tagsToString(mergeLoop(resource.Tags, merge, tags))

\* the tag keys of the bounded inputs: plain, camel case, and one with a
\* character sanitize replaces
LabelKeys == {<<"k">>, <<"k", "K", "k">>, <<"k", "%", "K">>}

\* the tag values of the bounded inputs: plain, and one to escape
LabelValues == {<<"v">>, <<"\"", "\\">>}

LabelTags == [Key : LabelKeys, Value : LabelValues]

ExtraTags == [Key : LabelKeys, Value : {<<"v">>}]

InitConvert ==
  /\ ctResource \in {tags \in SeqsUpTo(LabelTags, MaxResourceTags) : UniqueKeys(tags)}
  /\ ctMergeTags \in SeqsUpTo(LabelKeys, MaxMergeTags)
  /\ ctExtra \in SeqsUpTo(ExtraTags, MaxExtraTags)
  /\ ctOut = NoValue
  /\ escIn = <<>>
  /\ escOut = NoValue
  /\ labelPc = "convert"
  /\ IdleStore
  /\ IdleMain
  /\ IdleBatch
  /\ IdleRun
  /\ IdleFetch
  /\ IdleFilter
  /\ IdleQuery
  /\ IdleLoad
  /\ IdleConc
  /\ IdleIdx
  /\ IdleDim

ConvertTagsCall ==
  /\ labelPc = "convert"
  /\ ctOut' = convertTags([Tags |-> ctResource], ctMergeTags, ctExtra)
  /\ labelPc' = "converted"
  /\ UNCHANGED <<ctResource, ctMergeTags, ctExtra, escIn, escOut>>
  /\ UNCHANGED labelOthers

NextConvert ==
  \/ ConvertTagsCall

SpecConvert == InitConvert /\ [][NextConvert]_vars

\* the characters of a tag value: an ordinary one, the double quote, the backslash
EscapeAlphabet == {"n", "\"", "\\"}

InitEscape ==
  /\ escIn \in SeqsUpTo(EscapeAlphabet, MaxValueLen)
  /\ escOut = NoValue
  /\ ctResource = <<>>
  /\ ctMergeTags = <<>>
  /\ ctExtra = <<>>
  /\ ctOut = NoValue
  /\ labelPc = "escape"
  /\ IdleStore
  /\ IdleMain
  /\ IdleBatch
  /\ IdleRun
  /\ IdleFetch
  /\ IdleFilter
  /\ IdleQuery
  /\ IdleLoad
  /\ IdleConc
  /\ IdleIdx
  /\ IdleDim

EscapeValueCall ==
  /\ labelPc = "escape"
  /\ escOut' = escapeValue(escIn)
  /\ labelPc' = "escaped"
  /\ UNCHANGED <<ctResource, ctMergeTags, ctExtra, ctOut, escIn>>
  /\ UNCHANGED labelOthers

NextEscape ==
  \/ EscapeValueCall

SpecEscape == InitEscape /\ [][NextEscape]_vars

(***************************************************************************)
(* SpecMutex: one store and concurrent callers of Add, Commit and String.  *)
(* A call is a sequence of steps: s.Lock(), the statements of the body one *)
(* memory write at a time (WriteString one character at a time, the swap   *)
(* one pointer at a time), and the deferred s.Unlock().  The histories are *)
(* written when a call returns.                                            *)
(***************************************************************************)
Callers == 1..MaxCallers

\* what one Add writes: a run of one character
AddStrings ==
  {[i \in 1..n |-> c] : n \in 1..MaxAddLen, c \in Alphabet}

NoCall == [op |-> "none", pc |-> "idle", str |-> <<>>, left |-> <<>>,
           tmp |-> <<0, 0>>, ret |-> <<>>, from |-> 0]

InitMutex ==
  /\ cStore = NewStore
  /\ mu = 0
  /\ callers = [t \in Callers |-> NoCall]
  /\ calls = 0
  /\ cLog = <<<<>>>>
  /\ cPending = <<>>
  /\ reads = <<>>
  /\ IdleStore
  /\ IdleMain
  /\ IdleBatch
  /\ IdleRun
  /\ IdleFetch
  /\ IdleFilter
  /\ IdleQuery
  /\ IdleLoad
  /\ IdleLabel
  /\ IdleIdx
  /\ IdleDim

\* a caller enters Add(str)
CallAdd ==
  \E t \in Callers, str \in AddStrings :
    /\ callers[t].pc = "idle"
    /\ calls < MaxCalls
    /\ callers' = [callers EXCEPT ![t] =
                     [NoCall EXCEPT !.op = "Add", !.pc = "lock", !.str = str, !.left = str]]
    /\ calls' = calls + 1
    /\ UNCHANGED <<cStore, mu, cLog, cPending, reads>>
    /\ UNCHANGED concOthers

\* a caller enters Commit()
CallCommit ==
  \E t \in Callers :
    /\ callers[t].pc = "idle"
    /\ calls < MaxCalls
    /\ callers' = [callers EXCEPT ![t] = [NoCall EXCEPT !.op = "Commit", !.pc = "lock"]]
    /\ calls' = calls + 1
    /\ UNCHANGED <<cStore, mu, cLog, cPending, reads>>
    /\ UNCHANGED concOthers

\* a caller enters String()
CallString ==
  \E t \in Callers :
    /\ callers[t].pc = "idle"
    /\ calls < MaxCalls
    /\ callers' = [callers EXCEPT ![t] =
                     [NoCall EXCEPT !.op = "String", !.pc = "lock", !.from = Len(cLog)]]
    /\ calls' = calls + 1
    /\ UNCHANGED <<cStore, mu, cLog, cPending, reads>>
    /\ UNCHANGED concOthers

\* where the body of an operation starts
BodyOf(op) ==
  CASE op = "Add" -> "write"
    [] op = "Commit" -> "eval"
    [] op = "String" -> "read"

\* a mutant of MutexLock: the caller goes on whether or not the mutex is free
MutexLockNoWait ==
  \E t \in Callers :
    /\ callers[t].pc = "lock"
    /\ mu' = t
    /\ callers' = [callers EXCEPT ![t].pc = BodyOf(callers[t].op)]
    /\ UNCHANGED <<cStore, calls, cLog, cPending, reads>>
    /\ UNCHANGED concOthers

\* s.Lock(): returns once the mutex is free, and holds it
MutexLock ==
  \E t \in Callers :
    /\ callers[t].pc = "lock"
    /\ mu = 0
    /\ mu' = t
    /\ callers' = [callers EXCEPT ![t].pc = BodyOf(callers[t].op)]
    /\ UNCHANGED <<cStore, calls, cLog, cPending, reads>>
    /\ UNCHANGED concOthers

\* s.internal.WriteString(str), the next character
AddWrite ==
  \E t \in Callers :
    /\ callers[t].pc = "write"
    /\ IF callers[t].left = <<>>
       THEN /\ callers' = [callers EXCEPT ![t].pc = "unlock"]
            /\ UNCHANGED cStore
       ELSE /\ cStore' = [cStore EXCEPT !.buf[cStore.internal] =
                            Append(@, Head(callers[t].left))]
            /\ callers' = [callers EXCEPT ![t].left = Tail(@)]
    /\ UNCHANGED <<mu, calls, cLog, cPending, reads>>
    /\ UNCHANGED concOthers

\* s.internal, s.view = s.view, s.internal: the right-hand side is read
CommitEval ==
  \E t \in Callers :
    /\ callers[t].pc = "eval"
    /\ callers' = [callers EXCEPT ![t].tmp = <<cStore.view, cStore.internal>>,
                                  ![t].pc = "setInternal"]
    /\ UNCHANGED <<cStore, mu, calls, cLog, cPending, reads>>
    /\ UNCHANGED concOthers

\* ... s.internal is written
CommitSetInternal ==
  \E t \in Callers :
    /\ callers[t].pc = "setInternal"
    /\ cStore' = [cStore EXCEPT !.internal = callers[t].tmp[1]]
    /\ callers' = [callers EXCEPT ![t].pc = "setView"]
    /\ UNCHANGED <<mu, calls, cLog, cPending, reads>>
    /\ UNCHANGED concOthers

\* ... s.view is written
CommitSetView ==
  \E t \in Callers :
    /\ callers[t].pc = "setView"
    /\ cStore' = [cStore EXCEPT !.view = callers[t].tmp[2]]
    /\ callers' = [callers EXCEPT ![t].pc = "reset"]
    /\ UNCHANGED <<mu, calls, cLog, cPending, reads>>
    /\ UNCHANGED concOthers

\* s.internal.Reset()
CommitReset ==
  \E t \in Callers :
    /\ callers[t].pc = "reset"
    /\ cStore' = [cStore EXCEPT !.buf[cStore.internal] = <<>>]
    /\ callers' = [callers EXCEPT ![t].pc = "unlock"]
    /\ UNCHANGED <<mu, calls, cLog, cPending, reads>>
    /\ UNCHANGED concOthers

\* return s.view.String(): the value is taken before the deferred Unlock
StringRead ==
  \E t \in Callers :
    /\ callers[t].pc = "read"
    /\ callers' = [callers EXCEPT ![t].ret = cStore.buf[cStore.view],
                                  ![t].pc = "unlock"]
    /\ UNCHANGED <<cStore, mu, calls, cLog, cPending, reads>>
    /\ UNCHANGED concOthers

\* defer s.Unlock(), and the call returns
MutexUnlock ==
  \E t \in Callers :
    /\ callers[t].pc = "unlock"
    /\ mu' = 0
    /\ callers' = [callers EXCEPT ![t] = NoCall]
    /\ cPending' = CASE callers[t].op = "Add" -> Append(cPending, callers[t].str)
                     [] callers[t].op = "Commit" -> <<>>
                     [] OTHER -> cPending
    /\ cLog' = IF callers[t].op = "Commit"
               THEN Append(cLog, Flatten(cPending))
               ELSE cLog
    /\ reads' = IF callers[t].op = "String"
                THEN Append(reads, [ret |-> callers[t].ret,
                                    from |-> callers[t].from,
                                    to |-> Len(cLog)])
                ELSE reads
    /\ UNCHANGED <<cStore, calls>>
    /\ UNCHANGED concOthers

NextMutex ==
  \/ CallAdd
  \/ CallCommit
  \/ CallString
  \/ MutexLock
  \/ AddWrite
  \/ CommitEval
  \/ CommitSetInternal
  \/ CommitSetView
  \/ CommitReset
  \/ StringRead
  \/ MutexUnlock

SpecMutex == InitMutex /\ [][NextMutex]_vars

(***************************************************************************)
(* SpecIndex: NewResourceIndexFromTagMapping called once on a listing.  A  *)
(* listing may name one ARN more than once, with different tags; the       *)
(* extractor is id, the sha1 of the ARN.                                   *)
(***************************************************************************)
ListedResources == [ResourceARN : ARNs, Tags : {<<>>, <<"t">>}]

\* NewResourceIndex()
NewResourceIndex == [Queries |-> NoResults, Results |-> NoResults, Resources |-> NoResults]

\* a mutant of PutResource: an id that is in the map keeps its entry
PutResourceOnce(resources, key, item) ==
  IF key \in DOMAIN resources THEN resources
  ELSE [x \in DOMAIN resources \cup {key} |-> IF x = key THEN item ELSE resources[x]]

\* index.Resources[ex(item)] = item
PutResource(resources, key, item) ==
  [x \in DOMAIN resources \cup {key} |-> IF x = key THEN item ELSE resources[x]]

\* for _, item := range *r, from the head of the list on
RECURSIVE IndexLoop(_, _)
IndexLoop(index0, r) ==
  IF r = <<>> THEN index0
  ELSE IndexLoop([index0 EXCEPT !.Resources = PutResource(@, id(Head(r)), Head(r))],
                 Tail(r))

NewResourceIndexFromTagMapping(r) == IndexLoop(NewResourceIndex, r)

InitIndex ==
  /\ listed \in SeqsUpTo(ListedResources, MaxListed)
  /\ newIndex = NoValue
  /\ idxPc = "call"
  /\ IdleStore
  /\ IdleMain
  /\ IdleBatch
  /\ IdleRun
  /\ IdleFetch
  /\ IdleFilter
  /\ IdleQuery
  /\ IdleLoad
  /\ IdleLabel
  /\ IdleConc
  /\ IdleDim

IndexCall ==
  /\ idxPc = "call"
  /\ newIndex' = NewResourceIndexFromTagMapping(listed)
  /\ idxPc' = "done"
  /\ UNCHANGED listed
  /\ UNCHANGED idxOthers

NextIndex ==
  \/ IndexCall

SpecIndex == InitIndex /\ [][NextIndex]_vars

(***************************************************************************)
(* SpecDimension: makeQueries of an asg or ec_host collector, with one     *)
(* metric/stat pair, over resources whose ARN parses or not and whose      *)
(* resource part is long or short.  A slice or index expression out of     *)
(* range panics; nothing in the program recovers, so the panic unwinds     *)
(* the goroutine of the run loop and ends the process.                     *)
(***************************************************************************)
\* "autoScalingGroup:<uuid>:autoScalingGroupName/", 75 characters
AsgPrefix == [i \in 1..AsgPrefixLen |-> "p"]

\* the ARNs of the resources: arn.Parse fails on the first; the others parse
\* to the resource part given
DimARNs ==
  {[valid |-> FALSE, Resource |-> <<>>],
   [valid |-> TRUE, Resource |-> AsgPrefix \o <<"n">>],
   [valid |-> TRUE, Resource |-> AsgPrefix],
   [valid |-> TRUE, Resource |-> <<"c", ":", "n", ":", "1">>],
   [valid |-> TRUE, Resource |-> <<"c", ":", "n">>]}

\* strings.Split(str, ":"): the components, at least one
SplitOn(str, sep) ==
  LET seps == {i \in 1..Len(str) : str[i] = sep}
      n == Cardinality(seps)
      cut(k) == IF k = 0 THEN 0
                ELSE IF k = n + 1 THEN Len(str) + 1
                ELSE CHOOSE i \in seps : Cardinality({j \in seps : j < i}) = k - 1
  IN  [k \in 1..(n + 1) |-> SubSeq(str, cut(k - 1) + 1, cut(k) - 1)]

\* asgMetricDimension(resource)
asgMetricDimension(a) ==
  IF ~a.valid THEN [outcome |-> "error", d |-> <<>>]
  ELSE IF AsgPrefixLen > Len(a.Resource) THEN [outcome |-> "panic", d |-> <<>>]
  ELSE [outcome |-> "ok",
        d |-> <<[Name |-> "AutoScalingGroupName",
                 Value |-> SubSeq(a.Resource, AsgPrefixLen + 1, Len(a.Resource))]>>]

\* cacheNodeMetricDimension(resource)
cacheNodeMetricDimension(a) ==
  IF ~a.valid THEN [outcome |-> "error", d |-> <<>>]
  ELSE LET val == SplitOn(a.Resource, ":")
       IN  IF Len(val) < 3 THEN [outcome |-> "panic", d |-> <<>>]
           ELSE [outcome |-> "ok",
                 d |-> <<[Name |-> "CacheClusterId", Value |-> val[2]],
                         [Name |-> "CacheNodeId", Value |-> val[3]]>>]

\* the strategy run() is handed for the kind
dimensionsFor(kind, a) ==
  IF kind = "asg" THEN asgMetricDimension(a) ELSE cacheNodeMetricDimension(a)

\* makeQueries with one pair: for each resource d, err := dimensions(r); on an
\* error HandleError and continue; a panic leaves the loop
RECURSIVE makeQueriesWith(_, _, _, _)
makeQueriesWith(kind, rs, i, acc) ==
  IF i > Len(rs) THEN acc
  ELSE LET dim == dimensionsFor(kind, rs[i])
       IN  IF dim.outcome = "panic" THEN [acc EXCEPT !.panicked = TRUE]
           ELSE IF dim.outcome = "error"
           THEN makeQueriesWith(kind, rs, i + 1, [acc EXCEPT !.errors = @ + 1])
           ELSE makeQueriesWith(kind, rs, i + 1,
                                [acc EXCEPT !.queries = Append(@, [resource |-> i, d |-> dim.d])])

InitDimension ==
  /\ dimResources \in SeqsUpTo(DimARNs, MaxDimResources)
  /\ dimKind \in {"asg", "ec_host"}
  /\ dimOut = NoValue
  /\ dimPc = "makeQueries"
  /\ IdleStore
  /\ IdleMain
  /\ IdleBatch
  /\ IdleRun
  /\ IdleFetch
  /\ IdleFilter
  /\ IdleQuery
  /\ IdleLoad
  /\ IdleLabel
  /\ IdleConc
  /\ IdleIdx

\* getMetricDataInput calls makeQueries; the pass goes on, or the process
\* ends with the panic
DimensionPass ==
  /\ dimPc = "makeQueries"
  /\ dimOut' = makeQueriesWith(dimKind, dimResources, 1,
                               [queries |-> <<>>, errors |-> 0, panicked |-> FALSE])
  /\ dimPc' = IF dimOut'.panicked THEN "crashed" ELSE "fetching"
  /\ UNCHANGED <<dimResources, dimKind>>
  /\ UNCHANGED dimOthers

NextDimension ==
  \/ DimensionPass

SpecDimension == InitDimension /\ [][NextDimension]_vars

(***************************************************************************)
(* Claims about the store, checked under SpecStore.                        *)
(***************************************************************************)

\* C2: right after a Commit, String() is exactly the concatenation, in call
\* order, of the strings Added since the previous Commit (or since creation),
\* and holds nothing published or Added before that.
C2_CommitPublishesAdds ==
  (commits > 0 /\ pending = <<>>) =>
    /\ String(store) = Flatten(published)
    /\ (lastOp = "String" => got = Flatten(published))

\* C2 witness: a second or later Commit has just published two different
\* non-empty strings and the caller has read them back.
C2_Witness ==
  /\ commits >= 2
  /\ lastOp = "String"
  /\ pending = <<>>
  /\ Len(published) = 2
  /\ published[1] # <<>> /\ published[2] # <<>> /\ published[1] # published[2]
  /\ prevView # <<>>
  /\ got = published[1] \o published[2]

\* C3: on a newly created store String() is empty in every state before the
\* first Commit, whatever Add calls were made.
C3_EmptyBeforeFirstCommit ==
  commits = 0 =>
    /\ String(store) = <<>>
    /\ (lastOp = "String" => got = <<>>)

\* C3 witness: two non-empty strings were Added, no Commit yet, and the
\* caller has just read the store.
C3_Witness ==
  /\ commits = 0
  /\ Len(pending) = 2
  /\ pending[1] # <<>> /\ pending[2] # <<>>
  /\ lastOp = "String"
  /\ got = <<>>

\* C4: Add never changes what String() returns: from one Commit (or from
\* creation) to the next, String() keeps the value it had right after that
\* Commit, whatever is Added.
C4_AddKeepsString ==
  /\ String(store) = view0
  /\ (lastOp = "String" => got = view0)

\* C4 witness: a non-empty snapshot is published and a non-empty string has
\* just been Added on top of it.
C4_Witness ==
  /\ commits >= 1
  /\ view0 # <<>>
  /\ lastOp = "Add"
  /\ pending # <<>> /\ pending[Len(pending)] # <<>>
  /\ pending[Len(pending)] # view0

\* C5: right after every Commit the accumulating buffer is empty, and a
\* Commit with no Add since the Commit before it leaves String() empty.
C5_InternalEmptyAfterCommit ==
  /\ (lastOp = "Commit" => store.buf[store.internal] = <<>>)
  /\ (commits >= 2 /\ published = <<>> => String(store) = <<>>)

\* C5 witness: a Commit that follows a Commit with no Add in between, after
\* a non-empty snapshot had been published.
C5_Witness ==
  /\ lastOp = "Commit"
  /\ commits >= 2
  /\ published = <<>>
  /\ prevView # <<>>
  /\ String(store) = <<>>

(***************************************************************************)
(* Claims about the validity gate and start-up, checked under SpecMain.    *)
(***************************************************************************)

\* C8: Valid() returns true if and only if offset >= interval (equal is
\* valid, smaller is invalid), for every collector kind.
C8_ValidIffOffsetGeInterval ==
  \A i \in 1..Len(verdict) :
    verdict[i] = (conf[i].Offset >= conf[i].Interval)

\* C8 witness: main has judged a wrapped collector with offset equal to
\* interval valid, and a collector of another kind with a smaller offset
\* invalid.
C8_Witness ==
  /\ Len(verdict) = 2
  /\ conf[1].kind = "ec_host" /\ conf[1].Offset = conf[1].Interval /\ conf[1].Offset > 0
  /\ verdict[1] = TRUE
  /\ conf[2].kind = "asg" /\ conf[2].Offset < conf[2].Interval
  /\ verdict[2] = FALSE

\* C9: a collector whose Valid() is false is never run (no pass, no store,
\* no entry among the active collectors), and once main's loop is over every
\* collector whose Valid() is true has been run, wherever the invalid ones
\* stand in the list.
C9_InvalidNeverRunsOthersDo ==
  /\ \A i \in 1..Len(conf) :
       ~Valid(conf[i]) =>
         /\ proc[i].state = "created"
         /\ proc[i].store = NoStore
         /\ proc[i].passes = 0
         /\ i \notin collectors
  /\ mainPc = "serve" =>
       \A i \in 1..Len(conf) :
         Valid(conf[i]) =>
           /\ proc[i].state = "running"
           /\ proc[i].store = NewStore
           /\ i \in collectors

\* C9 witness: the first collector is invalid, the one after it is valid,
\* has been started and has made a pass.
C9_Witness ==
  /\ mainPc = "serve"
  /\ Len(conf) = 2
  /\ ~Valid(conf[1]) /\ errorCount[1] = 1
  /\ Valid(conf[2])
  /\ collectors = {2}
  /\ proc[2].passes = 1

(***************************************************************************)
(* Claims about the query batcher, checked under SpecBatch.                *)
(***************************************************************************)
CeilDiv(n, b) == (n + b - 1) \div b

\* C6: for N queries and the batch limit B = 500, getMetricDataInput returns
\* exactly ceil(N/B) batches (none when N = 0), each holding at least 1 and
\* at most B queries.
C6_BatchCount ==
  batchPc = "done" =>
    /\ Len(ins) = CeilDiv(Len(dataQuery), 500)
    /\ (Len(dataQuery) = 0 => ins = <<>>)
    /\ \A k \in 1..Len(ins) :
         /\ Len(ins[k].MetricDataQueries) >= 1
         /\ Len(ins[k].MetricDataQueries) <= 500

\* C6 witness: 1002 queries gave three batches, the last one holding two.
C6_Witness ==
  /\ batchPc = "done"
  /\ Len(dataQuery) = 1002
  /\ Len(ins) = 3
  /\ Len(ins[1].MetricDataQueries) = 500
  /\ Len(ins[3].MetricDataQueries) = 2

\* C7: all batches of one call carry the same window, computed from the one
\* reading of the clock made in that call: end = now - offset seconds and
\* start = end - interval seconds.
C7_OneWindow ==
  batchPc = "done" =>
    \A k \in 1..Len(ins) :
      /\ ins[k].EndTime = readAt - config.Offset
      /\ ins[k].StartTime = ins[k].EndTime - config.Interval

\* C7 witness: a call made after the clock had moved returned two batches or
\* more, with a positive offset and interval.
C7_Witness ==
  /\ batchPc = "done"
  /\ Len(ins) >= 2
  /\ readAt > 0
  /\ config.Offset > 0 /\ config.Interval > 0
  /\ ins[2].EndTime = readAt - config.Offset

(***************************************************************************)
(* Claims about the fetch aggregator and AddResults, checked under         *)
(* SpecFetch.                                                              *)
(***************************************************************************)

\* C13: a payload whose fetch failed, on its first page or on a later one,
\* has no result in the collection GetMetricData returns; it is counted once
\* in the error counter; and the request that failed was its last request.
C13_FailedBatchGivesNothing ==
  fetchPc # "spawn" =>
    /\ \A b \in failed :
         /\ \A i \in 1..Len(fetchRet.r) : fetchRet.r[i].Values[1] # b
         /\ gr[b].pc = "done"
         /\ requests[b] = gr[b].page + 1
    /\ teleErrors = Cardinality(failed)

\* C14: GetMetricData returns a nil error whatever the payloads' outcomes
\* were; when every payload failed the returned collection is empty, and the
\* pass goes on to AddResults and storeResults, which publishes no line.
C14_AllFailedGivesEmpty ==
  fetchPc # "spawn" =>
    /\ fetchRet.err = "nil"
    /\ failed = 1..Len(fetchIn) =>
         /\ fetchRet.r = <<>>
         /\ fetchPc = "stored" => fetchOut = <<>>

\* C15: after AddResults the result map of the index has entries under ids
\* of queries of the pass only.
C15_ResultsOnlyForQueries ==
  fetchPc \in {"added", "stored"} =>
    DOMAIN fetchIndex.Results \subseteq {fetchIn[b] : b \in 1..Len(fetchIn)}

(***************************************************************************)
(* Claims about the tag filter, checked under SpecFilter.                  *)
(***************************************************************************)
HasTag(g, f) == \E j \in 1..Len(g.Tags) : g.Tags[j] = f

MatchesAll(g, filters) == \A i \in 1..Len(filters) : HasTag(g, filters[i])

\* C16 as stated: filter keeps a group if and only if the group has, for
\* every configured filter, a tag with that key and that value; a group with
\* fewer tags than there are filters is never kept, also when the list
\* repeats a filter; an empty list of filters keeps every group.
C16_KeepsIffAllMatch ==
  filterPc = "done" =>
    /\ res = SelectSeq(groups, LAMBDA g : MatchesAll(g, tf))
    /\ \A i \in 1..Len(groups), j \in 1..Len(res) :
         Len(groups[i].Tags) < Len(tf) => res[j] # groups[i]
    /\ tf = <<>> => res = groups

\* C16 amended: filter keeps, in their order, exactly the groups that have at
\* least as many tags as there are filters and that have, for every filter, a
\* tag with that key and that value; so a group with fewer tags than filters
\* is never kept, an empty list keeps every group, and for a list that
\* repeats no filter the groups kept are exactly those matching every filter.
C16_KeepsIffLongEnoughAndAllMatch ==
  filterPc = "done" =>
    /\ res = SelectSeq(groups, LAMBDA g : Len(g.Tags) >= Len(tf) /\ MatchesAll(g, tf))
    /\ \A i \in 1..Len(groups), j \in 1..Len(res) :
         Len(groups[i].Tags) < Len(tf) => res[j] # groups[i]
    /\ tf = <<>> => res = groups
    /\ (\A i, j \in 1..Len(tf) : i # j => tf[i] # tf[j]) =>
         res = SelectSeq(groups, LAMBDA g : MatchesAll(g, tf))

\* C16 witness: the list repeats one filter; the first group has that one tag
\* only and is dropped, the second has it and another tag and is kept.
C16_Witness ==
  /\ filterPc = "done"
  /\ Len(tf) = 2 /\ tf[1] = tf[2]
  /\ Len(groups) = 2
  /\ groups[1].Tags = <<tf[1]>>
  /\ Len(groups[2].Tags) = 2 /\ HasTag(groups[2], tf[1])
  /\ res = <<groups[2]>>

(***************************************************************************)
(* Claims about makeQueries, checked under SpecQueries.                    *)
(***************************************************************************)
ValidIds == {rid \in DOMAIN qResources : qResources[rid].ResourceARN.valid}

FailingIds == DOMAIN qResources \ ValidIds

IdsOf(queries) == {queries[p].Id : p \in 1..Len(queries)}

\* C17: the query listed for resource id r at position i (from 0) has the id
\* "id_<r>_<i>"; two queries of one call have the same id only if they are
\* of the same resource and the same position; and every call on the same
\* resources and configuration gives the same set of ids.
C17_QueryIdsUniqueAndStable ==
  \A k \in 1..Len(builds) :
    /\ \A rid \in DOMAIN builds[k].Queries :
         \A j \in 1..Len(builds[k].Queries[rid]) :
           builds[k].Queries[rid][j].Id =
             <<"i", "d", "_">> \o rid \o <<"_">> \o Decimal(j - 1)
    /\ \A r1, r2 \in DOMAIN builds[k].Queries :
         \A j1 \in 1..Len(builds[k].Queries[r1]), j2 \in 1..Len(builds[k].Queries[r2]) :
           builds[k].Queries[r1][j1].Id = builds[k].Queries[r2][j2].Id
             => (r1 = r2 /\ j1 = j2)
    /\ \A p, q \in 1..Len(builds[k].dataQuery) :
         p # q => builds[k].dataQuery[p].Id # builds[k].dataQuery[q].Id
    /\ \A n \in 1..Len(builds) :
         IdsOf(builds[n].dataQuery) = IdsOf(builds[k].dataQuery)

\* C17 witness: two calls ranged over two resources in different orders and
\* over two pairs; they returned different lists with the same four ids.
C17_Witness ==
  /\ Len(builds) = 2
  /\ builds[1].order # builds[2].order
  /\ builds[1].dataQuery # builds[2].dataQuery
  /\ Cardinality(IdsOf(builds[1].dataQuery)) = 4
  /\ IdsOf(builds[1].dataQuery) = IdsOf(builds[2].dataQuery)

\* C18: makeQueries returns one query for every resource whose dimensions
\* can be derived and every configured pair, R*P queries when no derivation
\* fails; index.Queries[r] lists the queries of r in the order of the pairs,
\* each with the metric name and statistic of its pair, the configured
\* period and the dimension derived from r; and each of them stands exactly
\* once in the returned list.
C18_OneQueryPerResourceAndPair ==
  \A k \in 1..Len(builds) :
    LET pairs == qConfig.MetricStats
    IN  /\ Len(builds[k].dataQuery) = Cardinality(ValidIds) * Len(pairs)
        /\ FailingIds = {} =>
             Len(builds[k].dataQuery) = Cardinality(DOMAIN qResources) * Len(pairs)
        /\ \A rid \in ValidIds :
             pairs # <<>> =>
               /\ rid \in DOMAIN builds[k].Queries
               /\ Len(builds[k].Queries[rid]) = Len(pairs)
               /\ \A i \in 1..Len(pairs) :
                    LET query == builds[k].Queries[rid][i]
                    IN  /\ query.MetricName = pairs[i].MetricName
                        /\ query.Stat = pairs[i].Stat
                        /\ query.Period = qConfig.Period
                        /\ query.Dimensions =
                             <<[Name |-> "VolumeId",
                                Value |-> Tail(qResources[rid].ResourceARN.Resource)]>>
                        /\ Cardinality({p \in 1..Len(builds[k].dataQuery) :
                                          builds[k].dataQuery[p] = query}) = 1

\* C18 witness: two resources and two different pairs gave four queries.
C18_Witness ==
  /\ Len(builds) >= 1
  /\ Cardinality(DOMAIN qResources) = 2
  /\ FailingIds = {}
  /\ Len(qConfig.MetricStats) = 2
  /\ qConfig.MetricStats[1].MetricName # qConfig.MetricStats[2].MetricName
  /\ qConfig.MetricStats[1].Stat # qConfig.MetricStats[2].Stat
  /\ Len(builds[1].dataQuery) = 4

KnownTypes ==
  {"alb", "ebs", "ec", "elb", "nlb", "sqs", "rds", "neptune", "asg", "ec_host"}

UnknownEntries == {i \in 1..Len(rawCollectors) : rawCollectors[i].Type \notin KnownTypes}

\* C20: for a type string outside the known set, the empty string included,
\* CollectorFromConfig returns no collector and ErrNoSuchCollectorType;
\* loading then fails at the first such entry, and the process exits with
\* no collector run, also none of the sound entries before it.
C20_UnknownTypeStopsStartup ==
  /\ \A i \in 1..Len(rawCollectors) :
       (rawCollectors[i].Type \notin KnownTypes)
         <=> (CollectorFromConfig(rawCollectors[i]) =
                [collector |-> NoCollector, err |-> "ErrNoSuchCollectorType"])
  /\ (UnknownEntries # {} /\ mainPc # "load") =>
       /\ parsed.err = "ErrNoSuchCollectorType"
       /\ \A i \in UnknownEntries : Len(parsed.Collectors) < i
       /\ Len(parsed.Collectors) + 1 \in UnknownEntries
       /\ mainPc \in {"loaded", "exit"}
       /\ mainPc = "exit" => exitCode = 1
       /\ collectors = {}
       /\ proc = <<>>
       /\ verdict = <<>>

\* C20 witness: a sound ebs entry that would pass the validity gate is
\* followed by an entry with an empty type; the process has exited with
\* status 1, the ebs collector built and never run.
C20_Witness ==
  /\ Len(rawCollectors) = 2
  /\ rawCollectors[1].Type = "ebs"
  /\ rawCollectors[1].Offset >= rawCollectors[1].Interval
  /\ rawCollectors[2].Type = ""
  /\ mainPc = "exit"
  /\ exitCode = 1
  /\ Len(parsed.Collectors) = 1
  /\ collectors = {}

(***************************************************************************)
(* Claims about the run loop and its detached tasks, checked under SpecRun.*)
(***************************************************************************)

\* C1: in every reachable state of a running collector, also when the
\* detached tasks of two passes overlap, String() is empty (before the first
\* pass has committed) or exactly the complete formatted output of one
\* finished pass: never a partial output, never a mixture of two passes.
C1_SnapshotIsOnePass ==
  bStore # NoStore =>
    IF commitsDone = 0
    THEN String(bStore) = <<>>
    ELSE String(bStore) \in outputs

\* C10: the first pass begins at once when the collector is started: no
\* timer wait and no stop handling precedes it.
C10_FirstPassAtOnce ==
  /\ pass = 0 => /\ timerFired = 0
                 /\ runPc \in {"created", "first"}
  /\ runPc \in {"waiting", "sendDone", "stopped"} => pass >= 1

\* C10 witness: the first pass has run and handed its index to its task, no
\* timer has fired, and the loop waits in the select with a stop pending.
C10_Witness ==
  /\ pass = 1
  /\ timerFired = 0
  /\ runPc = "waiting"
  /\ stopOffered
  /\ tasks[1].pc = "add"

StoppedLoopIsOver ==
  /\ stopsRecvd \in {0, 1}
  /\ stopsRecvd = 0 => /\ runPc \notin {"sendDone", "stopped"}
                       /\ doneSent = 0
  /\ stopsRecvd = 1 => /\ runPc \in {"sendDone", "stopped"}
                       /\ pass = passAtStop
                       /\ doneSent = (IF runPc = "stopped" THEN 1 ELSE 0)

\* C11: once the run loop has received a stop signal it starts no further
\* pass (a timer that fires afterwards triggers none), it receives no second
\* stop, it sends on its Done channel once and no more, it has returned
\* exactly when that send has completed, and it does return.
C11_StopEndsTheLoop ==
  /\ []StoppedLoopIsOver
  /\ (stopsRecvd = 1) ~> (runPc = "stopped")

\* C11 witness: the loop was stopped after its first pass and has returned;
\* the timer of its last select has fired since, a second stop signal is
\* pending, and no second pass was begun.
C11_Witness ==
  /\ runPc = "stopped"
  /\ stopsRecvd = 1
  /\ doneSent = 1
  /\ lateTimer
  /\ stopOffered
  /\ pass = 1
  /\ pass < MaxPasses

\* C12: a pass whose resource listing failed issues no metric fetch and has no
\* storeResults task, hence makes no Add and no Commit; it counts one error;
\* and the loop is back in its select afterwards, from where the next timer
\* tick starts the next pass.
C12_ListFailureSkipsThePass ==
  \A k \in 1..MaxPasses :
    passLog[k].list = "failed" =>
      /\ ~passLog[k].fetch
      /\ tasks[k] = NoTask
      /\ passLog[k].errors = 1
      /\ runErrors >= Cardinality({j \in 1..MaxPasses : passLog[j].list = "failed"})
      /\ (k = pass /\ stopsRecvd = 0) => runPc = "waiting"

\* C12 witness: the listing of the first pass failed and nothing was stored
\* for it; the timer fired, the second pass fetched a value and its task has
\* published it.
C12_Witness ==
  /\ passLog[1].list = "failed"
  /\ tasks[1] = NoTask
  /\ timerFired = 1
  /\ passLog[2].list = "ok" /\ passLog[2].fetch
  /\ tasks[2].pc = "done" /\ tasks[2].values > 0
  /\ String(bStore) = FormatOutput(2, tasks[2].values)
  /\ runErrors = 1


(***************************************************************************)
(* Claims about the label renderer, checked under SpecConvert and          *)
(* SpecEscape.                                                             *)
(***************************************************************************)
\* the tags of the resource whose key is one of the merge-tag names, in the
\* resource's tag order
MergedTags ==
  SelectSeq(ctResource,
            LAMBDA tag : \E i \in 1..Len(ctMergeTags) : ctMergeTags[i] = tag.Key)

\* the labels of a list of tags, one after the other, separated by commas
RECURSIVE JoinLabels(_)
JoinLabels(tags) ==
  IF tags = <<>> THEN <<>>
  ELSE IF Len(tags) = 1 THEN LabelOf(tags[1], <<>>)
  ELSE LabelOf(tags[1], <<",">>) \o JoinLabels(Tail(tags))

RECURSIVE Unescape(_)
Unescape(str) ==
  IF str = <<>> THEN <<>>
  ELSE IF Head(str) # "\\" THEN <<Head(str)>> \o Unescape(Tail(str))
  ELSE IF Len(str) < 2 THEN <<"invalid">>
  ELSE IF str[2] \in {"\\", "\""} THEN <<str[2]>> \o Unescape(SubSeq(str, 3, Len(str)))
  ELSE IF str[2] = "n" THEN <<"\n">> \o Unescape(SubSeq(str, 3, Len(str)))
  ELSE <<"invalid">>

\* what one character of a value is written as
EscapedChar(c) ==
  IF c = "\"" THEN <<"\\", "\"">> ELSE IF c = "\\" THEN <<"\\", "\\">> ELSE <<c>>

\* C22: escapeValue writes backslash-quote for each double quote and two
\* backslashes for each backslash, each character of the value once and from
\* left to right, so reading the result back by the rules of the exposition
\* format gives the value.
C22_EscapeRoundTrips ==
  labelPc = "escaped" =>
    /\ escOut = Flatten([i \in 1..Len(escIn) |-> EscapedChar(escIn[i])])
    /\ Unescape(escOut) = escIn

\* C22 witness: a value with a double quote, a backslash and a backslash
\* followed by the letter n has been escaped.
C22_Witness ==
  /\ labelPc = "escaped"
  /\ \E i \in 1..Len(escIn) : escIn[i] = "\""
  /\ \E i \in 1..(Len(escIn) - 1) : escIn[i] = "\\" /\ escIn[i + 1] = "n"
  /\ Len(escOut) > Len(escIn) + 1


(***************************************************************************)
(* Claims about the store under concurrent callers, checked under          *)
(* SpecMutex.                                                              *)
(***************************************************************************)
\* the callers that are between s.Lock() and the deferred s.Unlock()
InBody == {t \in Callers : callers[t].pc \notin {"idle", "lock"}}

\* C23: Add, Commit and String of one store exclude each other; a String
\* that overlaps Commits returns the whole content published before or by
\* one of them, and an Add that overlaps a Commit lands whole in the cycle
\* before it or whole in the cycle after it: between calls the buffers hold
\* whole Added strings only.
C23_CallsAreAtomic ==
  /\ Cardinality(InBody) <= 1
  /\ InBody = (IF mu = 0 THEN {} ELSE {mu})
  /\ \A i \in 1..Len(reads) :
       \E k \in reads[i].from..reads[i].to : reads[i].ret = cLog[k]
  /\ mu = 0 =>
       /\ cStore.buf[cStore.view] = cLog[Len(cLog)]
       /\ cStore.buf[cStore.internal] = Flatten(cPending)
       /\ cStore.view # cStore.internal

\* C23 witness: a String call that was made before a Commit returned came
\* back after it with the content that Commit published, a two-character
\* Add, and a later Add has returned since.
C23_Witness ==
  /\ \E i \in 1..Len(reads) :
       /\ reads[i].from < reads[i].to
       /\ reads[i].ret = cLog[reads[i].to]
       /\ Len(reads[i].ret) = 2
  /\ cPending # <<>>
  /\ mu = 0


(***************************************************************************)
(* Claims about the run loop and its detached tasks, checked under SpecRun *)
(* and FairSpecRun.                                                        *)
(***************************************************************************)
\* collect of pass k has returned: the listing failed, or it went on to
\* getMetrics and that came back from the fetch or from the client error
PassReturned(k) ==
  \/ passLog[k].list = "failed"
  \/ passLog[k].list = "ok" /\ (passLog[k].fetch \/ passLog[k].errors > 0)

\* the goroutine is in collect, or about to enter the first one
PassInFlight == runPc \in {"first", "listing", "fetching"}

\* one step of the run loop's goroutine during a pass
PassStep ==
  \/ runPc = "first" /\ runPc' = "listing"
  \/ runPc = "listing" /\ runPc' \in {"fetching", "waiting"}
  \/ runPc = "fetching" /\ runPc' = "waiting"

\* C24: the stop is received only in the select between two passes; while a
\* pass is in flight a stop that was sent stays unreceived, the pass takes
\* its steps as without it, and when the stop has been received every pass
\* that was started has returned.
C24_StopOnlyBetweenPasses ==
  /\ [][stopsRecvd' # stopsRecvd => runPc = "waiting" /\ PassReturned(pass)]_vars
  /\ [][PassInFlight /\ stopOffered =>
          /\ stopOffered'
          /\ stopsRecvd' = stopsRecvd
          /\ (runPc' # runPc => PassStep)]_vars
  /\ [](stopsRecvd > 0 => \A k \in 1..pass : PassReturned(k))

\* C24 witness: the stop was sent while the second pass was fetching; it was
\* received after that pass had merged its results.
C24_Witness ==
  /\ stopsRecvd = 1
  /\ offerPc = "fetching"
  /\ passAtStop = 2
  /\ passLog[2].fetch
  /\ runPc = "stopped"

\* the detached storeResults tasks that have not committed yet
OpenTasks == {k \in 1..MaxPasses : tasks[k].pc \in {"add", "commit"}}

\* C25: the step of the run loop that ends the fetch of a pass starts the
\* pass's storeResults task and goes to the select with the store untouched:
\* the task has neither added nor committed.  The loop's steps do not wait
\* for tasks: in the select the timer can start the next pass whatever the
\* tasks are doing.
C25_LoopDoesNotWaitForTasks ==
  /\ [][runPc = "fetching" /\ runPc' # runPc =>
          /\ runPc' = "waiting"
          /\ bStore' = bStore
          /\ commitsDone' = commitsDone
          /\ (passLog'[pass].fetch => tasks'[pass].pc = "add")]_vars
  /\ [](runPc = "waiting" /\ pass < MaxPasses => ENABLED TimerFire)

\* C25 witness: the second pass is fetching while the task of the first pass
\* has added its text and has not committed.
C25_Witness ==
  /\ pass = 2
  /\ runPc = "fetching"
  /\ tasks[1].pc = "commit"
  /\ commitsDone = 0


(***************************************************************************)
(* Claims about the concurrent fetch, checked under SpecFetch.             *)
(***************************************************************************)
\* the goroutine of payload b is still running
FetchTaskRunning(b) == gr[b].pc \in {"fetch", "lock", "append", "write"}

\* C26: GetMetricData returns, and with it AddResults and the formatting of
\* the pass begin, only when the goroutine of every payload has ended, by
\* its last page or by an error.
C26_FormattingAfterAllFetches ==
  fetchPc \in {"returned", "added", "stored"} =>
    /\ wg = 0
    /\ \A b \in 1..Len(fetchIn) : gr[b].pc = "done" /\ ~FetchTaskRunning(b)

\* C26 witness: the pass has formatted its output after one payload failed
\* and another delivered two pages.
C26_Witness ==
  /\ fetchPc = "stored"
  /\ failed # {}
  /\ \E b \in 1..Len(fetchIn) : b \notin failed /\ gr[b].page = 2

\* the pages of payload b that its goroutine has appended to res.r
PagesAppended(b) ==
  IF gr[b].pc \in {"lock", "append", "write"} THEN gr[b].page - 1 ELSE gr[b].page

\* how often the result of page p of payload b is in the list
TimesIn(list, b, p) ==
  Cardinality({i \in 1..Len(list) : list[i].Values = <<b, p>>})

\* C27: under every interleaving of the goroutines, the collection holds the
\* result of every page a goroutine has appended exactly once, and the
\* collection GetMetricData returns holds every page of every payload that
\* did not fail exactly once, whichever other payloads failed.
C27_EveryResultExactlyOnce ==
  /\ \A b \in 1..Len(fetchIn) :
       \A p \in 1..PagesAppended(b) : TimesIn(resR, b, p) = 1
  /\ fetchPc # "spawn" =>
       /\ fetchRet.r = resR
       /\ \A b \in 1..Len(fetchIn) :
            b \notin failed =>
              /\ gr[b].page >= 1
              /\ \A p \in 1..gr[b].page : TimesIn(fetchRet.r, b, p) = 1

\* C27 witness: the second payload delivered two pages, the first one page
\* and then failed, and the pages of the two are interleaved in the
\* returned collection.
C27_Witness ==
  /\ Len(fetchIn) = 2
  /\ fetchPc = "returned"
  /\ failed = {1}
  /\ gr[1].page = 1
  /\ gr[2].page = 2
  /\ Len(fetchRet.r) = 3
  /\ fetchRet.r[1].Values = <<2, 1>>
  /\ fetchRet.r[2].Values = <<1, 1>>

\* C28: the lock of the result collection is held only by a goroutine that
\* is appending a page it has received; a goroutine whose request is in
\* progress does not hold it, so a goroutine that has a page to append gets
\* the lock when all the others are waiting for the provider.
C28_NoLockDuringFetch ==
  /\ resLock # 0 => gr[resLock].pc \in {"append", "write"}
  /\ \A b \in 1..Len(fetchIn) :
       gr[b].pc \in {"append", "write"} => resLock = b
  /\ (/\ \E a \in 1..Len(fetchIn) : gr[a].pc = "lock"
      /\ \A b \in 1..Len(fetchIn) : gr[b].pc \in {"none", "fetch", "lock", "done"})
       => ENABLED GrLock

\* C28 witness: the second goroutine holds the lock and appends while the
\* first, which has appended one page, waits for its next page.
C28_Witness ==
  /\ Len(fetchIn) = 2
  /\ gr[1].pc = "fetch" /\ gr[1].page = 1
  /\ gr[2].pc = "write" /\ resLock = 2
  /\ resR # <<>>


(***************************************************************************)
(* Claims about the batches of one pass, checked under SpecBatch.          *)
(***************************************************************************)
\* the query lists of the batches, in batch order
BatchQueries == [k \in 1..Len(ins) |-> ins[k].MetricDataQueries]

\* C29: the batches of one call partition the query list: in order they give
\* back the list, query by query, so every query of the list is in exactly
\* one batch, and every batch but the last holds exactly 500 queries.
C29_BatchesPartitionQueries ==
  batchPc = "done" =>
    /\ Flatten(BatchQueries) = dataQuery
    /\ \A k \in 1..Len(ins) :
         \A j \in 1..Len(BatchQueries[k]) :
           BatchQueries[k][j] = dataQuery[(k - 1) * MaxMetricDataQueryItems + j]
    /\ \A k \in 1..(Len(ins) - 1) :
         Len(BatchQueries[k]) = MaxMetricDataQueryItems

\* C29 witness: 501 queries went into two batches, the second one holding
\* the last query alone.
C29_Witness ==
  /\ batchPc = "done"
  /\ Len(dataQuery) = 501
  /\ Len(ins) = 2
  /\ BatchQueries[2] = <<dataQuery[501]>>
  /\ dataQuery[500] # dataQuery[501]


(***************************************************************************)
(* Claims about the formatted output of a pass, checked under SpecFetch.   *)
(***************************************************************************)
\* the resources of the pass's index
IndexResources == DOMAIN fetchIndex.Queries

\* query is one of the queries built for resource rid
BuiltFor(rid, query) ==
  \E j \in 1..Len(fetchIndex.Queries[rid]) : fetchIndex.Queries[rid][j] = query

\* C30: every sample line of the output of a pass is of a resource of the
\* pass's index, a query built for that resource and a value of the result
\* stored under the query's id; a result under no query's id gives no line;
\* a query without a result gives no line, and every query with a result
\* has a line for each of its values.
C30_LinesOnlyForIndexedQueries ==
  fetchPc = "stored" =>
    /\ \A i \in 1..Len(fetchOut) :
         LET rid == fetchOut[i][1]
             query == fetchOut[i][2]
             v == fetchOut[i][3]
         IN  /\ rid \in IndexResources
             /\ BuiltFor(rid, query)
             /\ query \in DOMAIN fetchIndex.Results
             /\ \E n \in 1..Len(fetchIndex.Results[query].Values) :
                  fetchIndex.Results[query].Values[n] = v
             /\ query # OrphanId
    /\ \A rid \in IndexResources :
         \A j \in 1..Len(fetchIndex.Queries[rid]) :
           LET query == fetchIndex.Queries[rid][j]
           IN  IF query \in DOMAIN fetchIndex.Results
               THEN \A n \in 1..Len(fetchIndex.Results[query].Values) :
                      \E i \in 1..Len(fetchOut) :
                        fetchOut[i] = <<rid, query, fetchIndex.Results[query].Values[n]>>
               ELSE \A i \in 1..Len(fetchOut) : fetchOut[i][2] # query

\* C30 witness: the index holds a result under an id no query has, the query
\* of one resource has no result, and the output has the lines of the other
\* resource's query.
C30_Witness ==
  /\ fetchPc = "stored"
  /\ Len(fetchIn) = 2
  /\ OrphanId \in DOMAIN fetchIndex.Results
  /\ \E b \in 1..2 : fetchIn[b] \notin DOMAIN fetchIndex.Results
  /\ \E b \in 1..2 : fetchIn[b] \in DOMAIN fetchIndex.Results
  /\ Len(fetchOut) = 2


(***************************************************************************)
(* Claims about the resource index, checked under SpecIndex.               *)
(***************************************************************************)
\* the last position of the listing whose resource derives the id key
LastWith(key) ==
  CHOOSE i \in 1..Len(listed) :
    /\ id(listed[i]) = key
    /\ \A j \in (i + 1)..Len(listed) : id(listed[j]) # key

\* C31: building the index from a listing always gives an index; it has one
\* entry for each id some resource of the listing derives and no other, and
\* the entry of an id is the last resource of the listing that derives it.
C31_IndexLastWins ==
  idxPc = "done" =>
    /\ DOMAIN newIndex.Resources = {id(listed[i]) : i \in 1..Len(listed)}
    /\ \A key \in DOMAIN newIndex.Resources :
         newIndex.Resources[key] = listed[LastWith(key)]
    /\ newIndex.Queries = NoResults
    /\ newIndex.Results = NoResults

\* C31 witness: a listing of three resources, the first and the last of the
\* same ARN with different tags, gave an index of two entries.
C31_Witness ==
  /\ idxPc = "done"
  /\ Len(listed) = 3
  /\ id(listed[1]) = id(listed[3])
  /\ listed[1] # listed[3]
  /\ id(listed[2]) # id(listed[1])
  /\ Cardinality(DOMAIN newIndex.Resources) = 2
  /\ newIndex.Resources[id(listed[1])] = listed[3]


(***************************************************************************)
(* Claims about the dimension strategies, checked under SpecDimension.     *)
(***************************************************************************)
\* the identifier is malformed for the kind: it does not parse, or its
\* resource part is shorter than the asg prefix, or has fewer than three
\* components for ec_host
Malformed(kind, a) ==
  \/ ~a.valid
  \/ kind = "asg" /\ Len(a.Resource) < AsgPrefixLen
  \/ kind = "ec_host" /\ Len(SplitOn(a.Resource, ":")) < 3

\* C32: a malformed identifier makes the strategy return an error: the
\* resource is skipped, the error counted once, the other resources get
\* their queries and the pass goes on; nothing ends the pass or the loop.
C32_MalformedIsSkipped ==
  dimPc # "makeQueries" =>
    /\ ~dimOut.panicked
    /\ dimPc = "fetching"
    /\ dimOut.errors =
         Cardinality({i \in 1..Len(dimResources) : Malformed(dimKind, dimResources[i])})
    /\ {dimOut.queries[j].resource : j \in 1..Len(dimOut.queries)} =
         {i \in 1..Len(dimResources) : ~Malformed(dimKind, dimResources[i])}


(***************************************************************************)
(* Further claims about the run loop and its tasks, checked under SpecRun  *)
(* and FairSpecRun.                                                        *)
(***************************************************************************)
\* the Adds and the Commits the task of pass k has made
AddsOf(k) == IF tasks[k].pc \in {"commit", "done"} THEN 1 ELSE 0

CommitsOf(k) == IF tasks[k].pc = "done" THEN 1 ELSE 0

\* C33: a pass that listed its resources and got its client has one
\* storeResults task, which makes one Add and then one Commit on the store;
\* a pass that failed before has no task.  The store changes by the Add of a
\* task that has not added or by the Commit of a task that has added, and
\* in no other way.
C33_OneAddThenOneCommit ==
  /\ [](\A k \in 1..MaxPasses :
          /\ (tasks[k].pc # "none") = passLog[k].fetch
          /\ CommitsOf(k) <= AddsOf(k)
          /\ (k <= pass /\ PassReturned(k) /\ ~passLog[k].fetch =>
                AddsOf(k) = 0 /\ CommitsOf(k) = 0))
  /\ [](commitsDone = Cardinality({k \in 1..MaxPasses : CommitsOf(k) = 1}))
  /\ [][bStore' # bStore /\ runPc # "created" =>
          \E k \in 1..MaxPasses :
            \/ /\ tasks[k].pc = "add" /\ tasks'[k].pc = "commit"
               /\ bStore' = Add(bStore, FormatOutput(k, tasks[k].values))
               /\ commitsDone' = commitsDone
            \/ /\ tasks[k].pc = "commit" /\ tasks'[k].pc = "done"
               /\ bStore' = Commit(bStore)
               /\ commitsDone' = commitsDone + 1]_vars

\* C33 witness: the first pass got no client and has no task; the task of
\* the second pass has added a line and committed it.
C33_Witness ==
  /\ pass = 2
  /\ passLog[1].list = "ok" /\ ~passLog[1].fetch /\ passLog[1].errors = 1
  /\ tasks[1].pc = "none"
  /\ tasks[2].pc = "done" /\ tasks[2].values = 1
  /\ commitsDone = 1
  /\ String(bStore) = FormatOutput(2, 1)

\* C34: the passes of a collector do not overlap.  Every pass but the latest
\* has returned, and a pass is started only from the select (or as the first
\* pass), when every pass started before has returned; the tasks of earlier
\* passes may be open at that time.
C34_PassesNeverOverlap ==
  /\ [](\A k \in 1..MaxPasses : k < pass => PassReturned(k))
  /\ [](PassInFlight /\ pass > 0 /\ runPc # "first" => ~PassReturned(pass))
  /\ [][pass' # pass =>
          /\ pass' = pass + 1
          /\ runPc \in {"first", "waiting"}
          /\ \A k \in 1..pass : PassReturned(k)]_vars

\* C34 witness: the second pass is fetching while the task of the first
\* pass, which has returned, has not yet added its output.
C34_Witness ==
  /\ pass = 2 /\ runPc = "fetching"
  /\ PassReturned(1) /\ ~PassReturned(2)
  /\ tasks[1].pc = "add"
  /\ timerFired = 1

\* C35: snapshots are published in pass order: the Commit of the task of
\* pass j is never made when the task of a later pass k has committed.
C35_PublishedInPassOrder ==
  [][\A j \in 1..MaxPasses :
       tasks[j].pc = "commit" /\ tasks'[j].pc = "done" =>
         \A k \in 1..MaxPasses : k > j => tasks[k].pc # "done"]_vars

\* C36: once Done has been notified after a stop, no Add and no Commit is
\* made on the store and the value of String() stays as it is.
C36_QuietAfterDone ==
  [][doneSent > 0 =>
       /\ bStore' = bStore
       /\ String(bStore)' = String(bStore)
       /\ commitsDone' = commitsDone]_vars

\* C37: the task of pass k reads the index of pass k and nothing writes an
\* index that has been handed to a task.  A pass starts its fetch with a
\* fresh index; the task of a pass is dispatched by the loop at the end of
\* that pass's fetch, with the index as the fetch left it; what a
\* dispatched task holds is never written again; and the Add of task k
\* formats what task k holds.
C37_IndexIsPrivateToItsPass ==
  /\ [][runPc = "listing" /\ runPc' = "fetching" => fetched' = 0]_vars
  /\ [][\A k \in 1..MaxPasses :
          /\ tasks[k].pc # "none" => tasks'[k].values = tasks[k].values
          /\ tasks[k].pc = "none" /\ tasks'[k].pc # "none" =>
               /\ k = pass /\ runPc = "fetching" /\ runPc' = "waiting"
               /\ tasks'[k] = [pc |-> "add", values |-> fetched']
          /\ tasks[k].pc = "add" /\ tasks'[k].pc # "add" =>
               bStore' = Add(bStore, FormatOutput(k, tasks[k].values))]_vars

\* C37 witness: the second pass has merged no value into its index and has
\* dispatched its task, while the task of the first pass still holds the one
\* value of the first pass, unformatted.
C37_Witness ==
  /\ pass = 2 /\ runPc = "waiting"
  /\ tasks[1] = [pc |-> "add", values |-> 1]
  /\ tasks[2] = [pc |-> "add", values |-> 0]
  /\ fetched = 0

(***************************************************************************)
(* Claims about the values of a pass that reach its output, checked under  *)
(* SpecFetch.                                                              *)
(***************************************************************************)
\* the values the provider returned under the id query, in all the result
\* records GetMetricData collected: (record, position) pairs
ReturnedUnder(query) ==
  {<<n, i>> \in (1..Len(fetchRet.r)) \X (1..2) :
     fetchRet.r[n].Id = query /\ i <= Len(fetchRet.r[n].Values)}

\* the sample lines of the output that are of the given query
LinesUnder(query) == {i \in 1..Len(fetchOut) : fetchOut[i][2] = query}

\* C38: every value the provider returned for a query of the pass, in any
\* page of a payload that did not fail, is one sample line of the output
\* of the pass, also when the values of one id came in several records.
C38_EveryReturnedValueHasOneLine ==
  fetchPc = "stored" =>
    \A b \in 1..Len(fetchIn) :
      b \notin failed /\ provider[b] = fetchIn[b] =>
        Cardinality(LinesUnder(fetchIn[b])) = Cardinality(ReturnedUnder(fetchIn[b]))

(***************************************************************************)
(* A claim about the query window of accepted configurations, checked      *)
(* under SpecBatch.                                                        *)
(***************************************************************************)
\* C40: a configuration that Valid accepts gives every request a window
\* with StartTime < EndTime <= now, of the interval's length.
C40_AcceptedWindowIsPastAndNonEmpty ==
  batchPc = "done" /\ BaseValid(config) =>
    \A k \in 1..Len(ins) :
      /\ ins[k].StartTime < ins[k].EndTime
      /\ ins[k].EndTime <= readAt
      /\ ins[k].EndTime - ins[k].StartTime = config.Interval

(***************************************************************************)
(* A claim about the end of a stopped collector, checked under             *)
(* LiveSpecRun.                                                            *)
(***************************************************************************)
\* C39: a stop offered to a collector whose loop has taken no stop yet is
\* accepted, Done is notified and the loop returns; while the stop is
\* pending in the select the stop case is ready.
C39_PendingStopIsAccepted ==
  /\ (stopOffered /\ stopsRecvd = 0) ~> (runPc = "stopped" /\ doneSent = 1)
  /\ [](stopOffered /\ stopsRecvd = 0 /\ runPc = "waiting" => ENABLED StopRecv)

\* C39 witness: the stop was offered before the first pass; the select after
\* the first pass took the timer all the same, the select after the second
\* pass took the stop, and the loop has returned.
C39_Witness ==
  /\ runPc = "stopped" /\ doneSent = 1
  /\ offerPc = "first"
  /\ timerFired = 1
  /\ passAtStop = 2
  /\ ~stopOffered

=============================================================================
